---- MODULE Spec2Model ----
(***************************************************************************)
(* Model of the real-electricity-price integration: the Nord Pool client   *)
(* (api.py), the main coordinator (coordinator.py), the cheap-period       *)
(* analysers (cheap_hours_coordinator.py, cheap_price_coordinator.py,      *)
(* sensors/cheap_hours.py), the current-tariff sensor                      *)
(* (sensors/current_price.py) and the configuration flow (config_flow.py). *)
(*                                                                         *)
(* Instants are integers counted in ticks of 1/TicksPerHour hour from      *)
(* 00:00 UTC of day 0.  Prices are integers in micro-EUR per kWh; a raw    *)
(* Nord Pool price is an integer in EUR per MWh.  An optional value is a   *)
(* sequence of length at most one: <<>> is Python's None, <<x>> is x.      *)
(***************************************************************************)
EXTENDS Integers, Sequences, FiniteSets, TLC

VARIABLES
    clock,        \* the current instant (datetime.now(UTC)), in ticks
    market,       \* what the upstream market publishes (fixed per behaviour)
    calendar,     \* the dates the holidays package reports as public holidays
    generation,   \* which cheap-period analyser this deployment runs
    entryData,    \* config_entry.data    (<<>> before the entry is created)
    entryOptions, \* config_entry.options (<<>> while no options were saved)
    flow,         \* the configuration flow in progress
    lastFetch,    \* the last refresh: which days the fetch returned, its result
    mainData,     \* RealElectricityPriceDataUpdateCoordinator.data
    isStartup,    \* RealElectricityPriceDataUpdateCoordinator._is_startup
    cheapData,    \* result of the last cheap-period analysis, with its locals
    tariffRead,   \* last value read from CurrentTariffSensor
    runtime,      \* CheapHoursDataUpdateCoordinator._runtime_base_price / _runtime_threshold
    priceRead,    \* last value read from CurrentPriceSensor
    published,    \* the first result object the cheap coordinator published
    trigger,      \* CheapHoursDataUpdateCoordinator._runtime_update_trigger / _trigger_unsub
    hass,         \* Home Assistant: the time listeners of the cheap coordinator, the stop event
    legacy        \* the coordinator of docker/config: its fields, its timers, its clock

vars == <<clock, market, calendar, generation, entryData, entryOptions, flow,
          lastFetch, mainData, isStartup, cheapData, tariffRead, runtime,
          priceRead, published, trigger, hass, legacy>>

(***************************************************************************)
(* Bounds of the model.                                                    *)
(***************************************************************************)
TicksPerHour == 2
MaxClockTicks == 1
NumPatterns == 3
MaxDefectPos == 2

(***************************************************************************)
(* Program constants.                                                      *)
(***************************************************************************)
HoursPerDay == 24
NIGHT_START_HOUR == 22
NIGHT_END_HOUR == 7
VAT_DEFAULT == 24
PRICE_DECIMAL_PRECISION == 6
PRICE_UNIT == 10 ^ PRICE_DECIMAL_PRECISION
GRID_ELECTRICITY_EXCISE_DUTY_DEFAULT == 2600
GRID_RENEWABLE_ENERGY_CHARGE_DEFAULT == 10400
GRID_ELECTRICITY_TRANSMISSION_PRICE_NIGHT_DEFAULT == 26000
GRID_ELECTRICITY_TRANSMISSION_PRICE_DAY_DEFAULT == 45800
SUPPLIER_RENEWABLE_ENERGY_CHARGE_DEFAULT == 0
SUPPLIER_MARGIN_DEFAULT == 10500
CHEAP_PRICE_THRESHOLD_DEFAULT == 10
CHEAP_HOURS_THRESHOLD_DEFAULT == 10
CHEAP_HOURS_BASE_PRICE_DEFAULT == 150000
STALE_AFTER_HOURS == 6
THRESHOLD_MAX == 100
DEFAULT_TRIGGER_HOUR == 14
DEFAULT_TRIGGER_MINUTE == 30
LEGACY_SCAN_STEP == 300
FOLLOW_UP_SECONDS == 900
NEAR_MIDNIGHT_FROM == 22
NEAR_MIDNIGHT_UNTIL == 2
LAST_HOUR == 23
LAST_MINUTE == 59
SATURDAY == 5
TzOffsetHours == 2
EpochWeekday == 3

None == <<>>
Some(x) == <<x>>
IsNone(o) == o = <<>>
IsSome(o) == o # <<>>
Val(o) == o[1]

TicksPerDay == HoursPerDay * TicksPerHour
DayStart(d) == d * TicksPerDay
DateOf(t) == t \div TicksPerDay
HourOf(t) == (t % TicksPerDay) \div TicksPerHour
HourStart(t) == t - (t % TicksPerHour)
LocalHour(t) == (HourOf(t) + TzOffsetHours) % HoursPerDay
LocalDate(t) == DateOf(t + TzOffsetHours * TicksPerHour)
Weekday(d) == (d + EpochWeekday) % 7

Min(a, b) == IF a <= b THEN a ELSE b
Max(a, b) == IF a >= b THEN a ELSE b

DayKeys == <<"yesterday", "today", "tomorrow">>
DayKeySet == {"yesterday", "today", "tomorrow"}

(***************************************************************************)
(* Configuration records.  A stored configuration is a function from keys  *)
(* to values; config = {**entry.data, **entry.options}.                    *)
(***************************************************************************)
CfgGet(cfg, key, default) == IF key \in DOMAIN cfg THEN cfg[key] ELSE default

MergedConfig(data, options) ==
    IF IsNone(data) THEN (IF IsNone(options) THEN <<>> ELSE Val(options))
    ELSE IF IsNone(options) THEN Val(data) ELSE Val(options) @@ Val(data)

TimeDict(h, m) == [kind |-> "dict", hour |-> h, minute |-> m]
TimeStr(h, m) == [kind |-> "str", hour |-> h, minute |-> m]

IdleFlow == [step |-> "idle", user_data |-> <<>>, errors |-> "none"]

DefaultEntry ==
    [country_code |-> "EE", vat |-> VAT_DEFAULT, has_night_tariff |-> TRUE,
     offpeak_strategy |-> "night_window",
     night_price_start_time |-> TimeDict(NIGHT_START_HOUR, 0),
     night_price_end_time |-> TimeDict(NIGHT_END_HOUR, 0)]

(***************************************************************************)
(* The upstream market.  A well-formed day has one entry per UTC hour; a   *)
(* published day may carry one defect: an entry dropped or duplicated (a   *)
(* 23- or 25-hour day) or an entry lacking its deliveryStart, its          *)
(* deliveryEnd or its price for the area (absent key or JSON null).        *)
(***************************************************************************)
PatternPrice(p, d, h) ==
    IF p = 1 THEN (IF h \in {0, 1, 3} THEN 10 ELSE 200)
    ELSE IF p = 2 THEN <<100, 120, 200, 110>>[(h % 4) + 1]
    ELSE 50 + p

WellFormedEntry(p, d, h) ==
    [deliveryStart |-> Some(DayStart(d) + h * TicksPerHour),
     deliveryEnd |-> Some(DayStart(d) + (h + 1) * TicksPerHour),
     hasMap |-> TRUE,
     hasArea |-> TRUE,
     price |-> Some(PatternPrice(p, d, h))]

WellFormedEntries(p, d) == [i \in 1..HoursPerDay |-> WellFormedEntry(p, d, i - 1)]

NoDefect == [kind |-> "none", pos |-> 1, hasStart |-> TRUE, hasEnd |-> TRUE,
             priceKind |-> "num"]

\* One entry damaged: a field missing (deliveryStart, deliveryEnd, the whole
\* entryPerArea map, the area's key in it) or the area's price JSON null, and
\* an entry that lacks its start as well as a usable price.
Damages ==
    { [hasStart |-> FALSE, hasEnd |-> TRUE, priceKind |-> "num"],
      [hasStart |-> TRUE, hasEnd |-> FALSE, priceKind |-> "num"],
      [hasStart |-> TRUE, hasEnd |-> TRUE, priceKind |-> "nomap"],
      [hasStart |-> TRUE, hasEnd |-> TRUE, priceKind |-> "absent"],
      [hasStart |-> TRUE, hasEnd |-> TRUE, priceKind |-> "null"],
      [hasStart |-> FALSE, hasEnd |-> TRUE, priceKind |-> "null"],
      [hasStart |-> FALSE, hasEnd |-> TRUE, priceKind |-> "absent"] }

Defects ==
    {NoDefect}
    \cup [kind : {"drop", "dup"}, pos : {MaxDefectPos}, hasStart : {TRUE},
          hasEnd : {TRUE}, priceKind : {"num"}]
    \cup { [kind |-> "damage", pos |-> pos, hasStart |-> dm.hasStart,
            hasEnd |-> dm.hasEnd, priceKind |-> dm.priceKind] :
            pos \in 1..MaxDefectPos, dm \in Damages }

Damage(e, df) ==
    [deliveryStart |-> IF df.hasStart THEN e.deliveryStart ELSE None,
     deliveryEnd |-> IF df.hasEnd THEN e.deliveryEnd ELSE None,
     hasMap |-> df.priceKind # "nomap",
     hasArea |-> df.priceKind \in {"num", "null"},
     price |-> IF df.priceKind = "num" THEN e.price ELSE None]

ApplyDefect(es, df) ==
    IF df.kind = "drop"
    THEN [i \in 1..(Len(es) - 1) |-> IF i < df.pos THEN es[i] ELSE es[i + 1]]
    ELSE IF df.kind = "dup"
    THEN [i \in 1..(Len(es) + 1) |-> IF i <= df.pos THEN es[i] ELSE es[i - 1]]
    ELSE IF df.kind = "damage"
    THEN [i \in 1..Len(es) |-> IF i = df.pos THEN Damage(es[i], df) ELSE es[i]]
    ELSE es

StandardBlocks(d) ==
    << [deliveryStart |-> Some(DayStart(d)),
        deliveryEnd |-> Some(DayStart(d) + 8 * TicksPerHour),
        blockName |-> "Off-peak 1"],
       [deliveryStart |-> Some(DayStart(d) + 8 * TicksPerHour),
        deliveryEnd |-> Some(DayStart(d) + 20 * TicksPerHour),
        blockName |-> "Peak"],
       [deliveryStart |-> Some(DayStart(d) + 20 * TicksPerHour),
        deliveryEnd |-> Some(DayStart(d) + HoursPerDay * TicksPerHour),
        blockName |-> "Off-peak 2"] >>

\* The JSON document the day-ahead endpoint returns for date d.
UpstreamDay(mk, d) ==
    [multiAreaEntries |->
        <<>> \o (IF d = mk.defectDate
                 THEN ApplyDefect(WellFormedEntries(mk.pattern, d), mk.defect)
                 ELSE WellFormedEntries(mk.pattern, d)),
     blockPriceAggregates |-> IF mk.blocks THEN StandardBlocks(d) ELSE <<>>]

(***************************************************************************)
(* api.py: price composition and the two day-series builders.              *)
(***************************************************************************)
RoundHalfEven(n, d) ==
    LET q == n \div d
        r == n % d
    IN  IF 2 * r < d THEN q
        ELSE IF 2 * r > d THEN q + 1
        ELSE IF q % 2 = 0 THEN q ELSE q + 1

\* component * (1 + vat_pct / 100) when its flag is set, in 1/100 micro-EUR
WithVat(x, flag, vat) == IF flag THEN x * (100 + vat) ELSE x * 100

\* the locals _modify_prices reads from the configuration before its loop
PriceConfig(cfg) ==
    [vat_pct |-> CfgGet(cfg, "vat", VAT_DEFAULT),
     grid_electricity_excise_duty |->
        CfgGet(cfg, "grid_electricity_excise_duty", GRID_ELECTRICITY_EXCISE_DUTY_DEFAULT),
     grid_renewable_energy_charge |->
        CfgGet(cfg, "grid_renewable_energy_charge", GRID_RENEWABLE_ENERGY_CHARGE_DEFAULT),
     grid_electricity_transmission_price_night |->
        CfgGet(cfg, "grid_electricity_transmission_price_night",
               GRID_ELECTRICITY_TRANSMISSION_PRICE_NIGHT_DEFAULT),
     grid_electricity_transmission_price_day |->
        CfgGet(cfg, "grid_electricity_transmission_price_day",
               GRID_ELECTRICITY_TRANSMISSION_PRICE_DAY_DEFAULT),
     supplier_renewable_energy_charge |->
        CfgGet(cfg, "supplier_renewable_energy_charge",
               SUPPLIER_RENEWABLE_ENERGY_CHARGE_DEFAULT),
     supplier_margin |-> CfgGet(cfg, "supplier_margin", SUPPLIER_MARGIN_DEFAULT),
     vat_nord_pool |-> CfgGet(cfg, "vat_nord_pool", TRUE),
     vat_grid_excise_duty |-> CfgGet(cfg, "vat_grid_electricity_excise_duty", FALSE),
     vat_grid_renewable |-> CfgGet(cfg, "vat_grid_renewable_energy_charge", FALSE),
     vat_grid_transmission_night |-> CfgGet(cfg, "vat_grid_transmission_night", FALSE),
     vat_grid_transmission_day |-> CfgGet(cfg, "vat_grid_transmission_day", FALSE),
     vat_supplier_renewable |->
        CfgGet(cfg, "vat_supplier_renewable_energy_charge", FALSE),
     vat_supplier_margin |-> CfgGet(cfg, "vat_supplier_margin", FALSE),
     night_start |-> CfgGet(cfg, "night_price_start_hour", NIGHT_START_HOUR),
     night_end |-> CfgGet(cfg, "night_price_end_hour", NIGHT_END_HOUR)]

\* final_price of one entry, rounded to PRICE_DECIMAL_PRECISION decimals
ComposePrice(original, nightTransmission, pc) ==
    LET transmission_price ==
            IF nightTransmission THEN pc.grid_electricity_transmission_price_night
            ELSE pc.grid_electricity_transmission_price_day
        vat_transmission ==
            IF nightTransmission THEN pc.vat_grid_transmission_night
            ELSE pc.vat_grid_transmission_day
        total ==
            WithVat(original * 1000, pc.vat_nord_pool, pc.vat_pct)
            + WithVat(pc.grid_electricity_excise_duty, pc.vat_grid_excise_duty, pc.vat_pct)
            + WithVat(pc.grid_renewable_energy_charge, pc.vat_grid_renewable, pc.vat_pct)
            + WithVat(pc.supplier_renewable_energy_charge, pc.vat_supplier_renewable,
                      pc.vat_pct)
            + WithVat(pc.supplier_margin, pc.vat_supplier_margin, pc.vat_pct)
            + WithVat(transmission_price, vat_transmission, pc.vat_pct)
    IN  RoundHalfEven(total, 100)

RECURSIVE BlockTariff(_, _, _)
BlockTariff(blocks, i, dt) ==
    IF i > Len(blocks) THEN "night"
    ELSE IF IsSome(blocks[i].deliveryStart) /\ IsSome(blocks[i].deliveryEnd)
            /\ Val(blocks[i].deliveryStart) <= dt /\ dt < Val(blocks[i].deliveryEnd)
         THEN (IF blocks[i].blockName = "Peak" THEN "day" ELSE "night")
         ELSE BlockTariff(blocks, i + 1, dt)

\* One iteration of the loop over multiAreaEntries; tariffIn is the value the
\* local variable tariff holds when the iteration starts ("unbound" before
\* its first assignment).  The iteration raises on a null price (TypeError),
\* on an entry without entryPerArea (KeyError) and on a read of the unbound
\* tariff (UnboundLocalError).
ProcessEntry(e, tariffIn, ctx) ==
    LET hasStart == IsSome(e.deliveryStart)
        dt == Val(e.deliveryStart)
        tariff ==
            IF ~hasStart THEN tariffIn
            ELSE IF ctx.is_holiday \/ ctx.is_weekend THEN "night"
            ELSE BlockTariff(ctx.blocks, 1, dt)
        nightTransmission ==
            ctx.is_weekend \/ ctx.is_holiday
            \/ LocalHour(dt) >= ctx.pc.night_start \/ LocalHour(dt) < ctx.pc.night_end
        composed == hasStart /\ e.hasArea
        nord_pool_price == IF composed THEN Some(Val(e.price) * 1000) ELSE Some(0)
        actual_price ==
            IF ~e.hasArea THEN Some(0)
            ELSE IF hasStart THEN Some(ComposePrice(Val(e.price), nightTransmission, ctx.pc))
            ELSE IF IsNone(e.price) THEN None
            ELSE Some(Val(e.price) * PRICE_UNIT)
    IN  IF composed /\ IsNone(e.price) THEN [raised |-> TRUE]
        ELSE IF ~e.hasMap THEN [raised |-> TRUE]
        ELSE IF tariff = "unbound" THEN [raised |-> TRUE]
        ELSE [raised |-> FALSE, tariff |-> tariff,
              sample |-> [start_time |-> e.deliveryStart,
                          end_time |-> e.deliveryEnd,
                          nord_pool_price |-> nord_pool_price,
                          actual_price |-> actual_price,
                          tariff |-> tariff,
                          is_holiday |-> ctx.is_holiday,
                          is_weekend |-> ctx.is_weekend]]

RECURSIVE ModifyLoop(_, _, _, _, _)
ModifyLoop(entries, i, tariffIn, acc, ctx) ==
    IF i > Len(entries) THEN [raised |-> FALSE, hourly_prices |-> acc]
    ELSE LET step == ProcessEntry(entries[i], tariffIn, ctx)
         IN  IF step.raised THEN [raised |-> TRUE]
             ELSE ModifyLoop(entries, i + 1, step.tariff,
                             Append(acc, step.sample), ctx)

\* holidays.country_holidays(...) either raises or answers from the calendar
ModifyPrices(data, cfg, d, cal, lookupFails) ==
    IF lookupFails THEN [raised |-> TRUE]
    ELSE LET ctx == [pc |-> PriceConfig(cfg),
                     is_holiday |-> d \in cal,
                     is_weekend |-> Weekday(d) >= SATURDAY,
                     blocks |-> data.blockPriceAggregates]
             loop == ModifyLoop(data.multiAreaEntries, 1, "unbound", <<>>, ctx)
         IN  IF loop.raised THEN [raised |-> TRUE]
             ELSE [raised |-> FALSE,
                   day |-> [hourly_prices |-> loop.hourly_prices,
                            date |-> d,
                            is_holiday |-> ctx.is_holiday,
                            is_weekend |-> ctx.is_weekend,
                            data_available |-> TRUE]]

IsNightHour(night_start, night_end, local_hour) ==
    IF night_start > night_end
    THEN local_hour >= night_start \/ local_hour < night_end
    ELSE night_start <= local_hour /\ local_hour < night_end

\* A placeholder builder that marks its day as holding data.
CreatePlaceholderDayDataMarkedAvailable(cfg, d, cal, lookupFails) ==
    IF lookupFails THEN [raised |-> TRUE]
    ELSE [raised |-> FALSE,
          day |-> [hourly_prices |->
                       [i \in 1..HoursPerDay |->
                           [start_time |-> Some(DayStart(d) + (i - 1) * TicksPerHour),
                            end_time |-> Some(DayStart(d) + i * TicksPerHour),
                            nord_pool_price |-> None,
                            actual_price |-> None,
                            tariff |-> "night",
                            is_holiday |-> d \in cal,
                            is_weekend |-> Weekday(d) >= SATURDAY]],
                   date |-> d,
                   is_holiday |-> d \in cal,
                   is_weekend |-> Weekday(d) >= SATURDAY,
                   data_available |-> TRUE]]

CreatePlaceholderDayData(cfg, d, cal, lookupFails) ==
    IF lookupFails THEN [raised |-> TRUE]
    ELSE LET night_start == CfgGet(cfg, "night_price_start_hour", NIGHT_START_HOUR)
             night_end == CfgGet(cfg, "night_price_end_hour", NIGHT_END_HOUR)
             is_holiday == d \in cal
             is_weekend == Weekday(d) >= SATURDAY
             slot(hour) ==
                LET start_time == DayStart(d) + hour * TicksPerHour
                IN  [start_time |-> Some(start_time),
                     end_time |-> Some(start_time + TicksPerHour),
                     nord_pool_price |-> None,
                     actual_price |-> None,
                     tariff |-> IF is_holiday \/ is_weekend THEN "night"
                                ELSE IF IsNightHour(night_start, night_end,
                                                    LocalHour(start_time))
                                     THEN "night" ELSE "day",
                     is_holiday |-> is_holiday,
                     is_weekend |-> is_weekend]
         IN  [raised |-> FALSE,
              day |-> [hourly_prices |-> [i \in 1..HoursPerDay |-> slot(i - 1)],
                       date |-> d,
                       is_holiday |-> is_holiday,
                       is_weekend |-> is_weekend,
                       data_available |-> FALSE]]

\* async_get_data: avail[k] says whether _fetch_day_data returned a document
\* for that day.  The result is "none" (return None), "raised"
\* (RealElectricityPriceApiClientError) or "ok" with the result dict.
AsyncGetData(t, mk, cfg, cal, avail, lookupFails) ==
    LET today == DateOf(t)
        y == ModifyPrices(UpstreamDay(mk, today - 1), cfg, today - 1, cal, lookupFails)
        n == ModifyPrices(UpstreamDay(mk, today), cfg, today, cal, lookupFails)
        m == IF avail["tomorrow"]
             THEN ModifyPrices(UpstreamDay(mk, today + 1), cfg, today + 1, cal, lookupFails)
             ELSE CreatePlaceholderDayData(cfg, today + 1, cal, lookupFails)
    IN  IF ~avail["today"] THEN [outcome |-> "none"]
        ELSE IF (avail["yesterday"] /\ y.raised) \/ n.raised \/ m.raised
        THEN [outcome |-> "raised"]
        ELSE [outcome |-> "ok",
              data |-> [k \in (IF avail["yesterday"] THEN DayKeySet
                               ELSE DayKeySet \ {"yesterday"}) |->
                          IF k = "yesterday" THEN y.day
                          ELSE IF k = "today" THEN n.day ELSE m.day]]

(***************************************************************************)
(* Cheap-period analysis.  Three generations of it exist side by side:     *)
(*   "cheap_hours"  CheapHoursDataUpdateCoordinator (configured base price)*)
(*   "cheap_price"  CheapPriceDataUpdateCoordinator (observed minimum)     *)
(*   "sensor"       the sensor's own fallback analysis                     *)
(* main is the main coordinator's data: [days, last_sync, config].         *)
(***************************************************************************)
\* sum(prices): integer addition, split in halves to keep the recursion shallow
RECURSIVE SeqSum(_)
SeqSum(s) ==
    IF Len(s) = 0 THEN 0
    ELSE IF Len(s) = 1 THEN s[1]
    ELSE SeqSum(SubSeq(s, 1, Len(s) \div 2))
         + SeqSum(SubSeq(s, (Len(s) \div 2) + 1, Len(s)))

SetMin(S) == CHOOSE m \in S : \A x \in S : m <= x
SetMax(S) == CHOOSE m \in S : \A x \in S : m >= x

Front(s) == SubSeq(s, 1, Len(s) - 1)

\* DayPrices without the "actual_price is not None" test: a missing price
\* is read as 0
DayPricesKeepingNull(day) ==
    [i \in 1..Len(day.hourly_prices) |->
        [start_time |-> day.hourly_prices[i].start_time,
         end_time |-> day.hourly_prices[i].end_time,
         price |-> IF IsSome(day.hourly_prices[i].actual_price)
                   THEN Val(day.hourly_prices[i].actual_price) ELSE 0,
         date |-> day.date]]

\* the samples of one day that carry a price, as the collection loop keeps them
DayPrices(day) ==
    LET kept == SelectSeq(day.hourly_prices, LAMBDA e : IsSome(e.actual_price))
    IN  [i \in 1..Len(kept) |->
            [start_time |-> kept[i].start_time,
             end_time |-> kept[i].end_time,
             price |-> Val(kept[i].actual_price),
             date |-> day.date]]

\* for data_key in main_data: ... all_prices.append(...)
CollectPrices(main, checkAvailable) ==
    LET of(k) == IF k \in DOMAIN main.days
                    /\ (~checkAvailable \/ main.days[k].data_available)
                 THEN DayPrices(main.days[k]) ELSE <<>>
    IN  of("yesterday") \o of("today") \o of("tomorrow")

\* list.sort(key=start) is stable: an element goes after its equals
RECURSIVE InsertByStart(_, _)
InsertByStart(sorted, x) ==
    IF sorted = <<>> \/ Val(sorted[Len(sorted)].start_time) <= Val(x.start_time)
    THEN Append(sorted, x)
    ELSE Append(InsertByStart(Front(sorted), x), sorted[Len(sorted)])

RECURSIVE SortByStart(_, _, _)
SortByStart(s, i, acc) ==
    IF i > Len(s) \/ Len(acc) # i - 1 THEN acc
    ELSE SortByStart(s, i + 1, InsertByStart(acc, s[i]))

\* The range the loop of _group_consecutive_hours builds from cheap[b..e]:
\* it starts at the first hour's start, ends at the last hour's end, and its
\* statistics run over the prices appended ("prices" itself is popped).
\* withFirstPrice: the coordinators also keep "price", the first hour's price.
BuildRange(cheap, b, e, withFirstPrice) ==
    LET prices == [j \in 1..(e - b + 1) |-> cheap[b + j - 1].price]
        values == {prices[j] : j \in 1..(e - b + 1)}
    IN  [start_time |-> cheap[b].start_time,
         end_time |-> cheap[e].end_time,
         price |-> IF withFirstPrice THEN Some(cheap[b].price) ELSE None,
         min_price |-> SetMin(values),
         max_price |-> SetMax(values),
         avg_price |-> RoundHalfEven(SeqSum(prices), e - b + 1),
         hour_count |-> e - b + 1]

\* the grouping with every hour a range of its own
GroupEachHourAlone(cheap, withFirstPrice, endRaises) ==
    [raised |-> FALSE,
     ranges |-> [k \in 1..Len(cheap) |-> BuildRange(cheap, k, k, withFirstPrice)]]

\* _group_consecutive_hours.  When the loop reaches cheap[i], the end_time of
\* the range being built is the end_time of cheap[i - 1]; cheap[i] extends the
\* range iff its start equals that end, and opens a new range otherwise.  An
\* end_time of None cannot be parsed: the coordinator catches the error and
\* opens a new range, pandas compares unequal, and the sensor's
\* parse_datetime raises out of the function (endRaises).
GroupConsecutiveHours(cheap, withFirstPrice, endRaises) ==
    LET n == Len(cheap)
        Extends(i) == /\ i > 1
                      /\ IsSome(cheap[i - 1].end_time)
                      /\ cheap[i].start_time = cheap[i - 1].end_time
        starts == {i \in 1..n : ~Extends(i)}
        kth(k) == CHOOSE b \in starts : Cardinality({x \in starts : x <= b}) = k
        last(b) == SetMin({e \in b..n : e = n \/ ~Extends(e + 1)})
    IN  IF endRaises /\ \E i \in 2..n : IsNone(cheap[i - 1].end_time)
        THEN [raised |-> TRUE]
        ELSE [raised |-> FALSE,
              ranges |-> [k \in 1..Cardinality(starts) |->
                            BuildRange(cheap, kth(k), last(kth(k)), withFirstPrice)]]

\* the cheap test without its threshold alternative
IsCheapPriceByBaseOnly(price, base_price, threshold_percent) ==
    price <= base_price

\* p["price"] <= base_price or p["price"] <= max_cheap_price_by_threshold
IsCheapPrice(price, base_price, threshold_percent) ==
    \/ price <= base_price
    \/ price * 100 <= base_price * (100 + threshold_percent)

EmptyAnalysis(now) ==
    [cheap_ranges |-> <<>>, analysis_info |-> <<>>,
     now |-> now, cutoff |-> now, future_prices |-> <<>>, cheap_prices |-> <<>>]

\* cheap_hours_coordinator.py: _analyze_cheap_prices
AnalyzeCheapHours(main, now, base_price, threshold_percent) ==
    LET all_prices == CollectPrices(main, TRUE)
        price_list == SelectSeq(all_prices, LAMBDA p : IsSome(p.start_time))
        sorted == SortByStart(price_list, 1, <<>>)
        current_time == now
        future_prices == SelectSeq(sorted, LAMBDA p : Val(p.start_time) >= current_time)
        cheap_prices ==
            SelectSeq(future_prices,
                      LAMBDA p : IsCheapPrice(p.price, base_price, threshold_percent))
        cheap_ranges == GroupConsecutiveHours(cheap_prices, TRUE, FALSE).ranges
    IN  IF all_prices = <<>> \/ future_prices = <<>>
        THEN [EmptyAnalysis(now) EXCEPT !.future_prices = future_prices]
        ELSE IF cheap_prices = <<>>
        THEN [cheap_ranges |-> <<>>,
              analysis_info |-> [base_price |-> base_price,
                                 threshold_percent |-> threshold_percent],
              now |-> now, cutoff |-> current_time,
              future_prices |-> future_prices, cheap_prices |-> <<>>]
        ELSE [cheap_ranges |-> cheap_ranges,
              analysis_info |-> [base_price |-> base_price,
                                 threshold_percent |-> threshold_percent,
                                 total_cheap_hours |-> Len(cheap_ranges),
                                 analysis_period_hours |-> Len(future_prices)],
              now |-> now, cutoff |-> current_time,
              future_prices |-> future_prices, cheap_prices |-> cheap_prices]

\* the test with the limit itself left out
IsBelowMaxCheapPrice(price, min_price, threshold_percent) ==
    price * 100 < min_price * (100 + threshold_percent)

\* df["price"] <= max_cheap_price, max_cheap_price = min_price * (1 + threshold / 100)
IsWithinMaxCheapPrice(price, min_price, threshold_percent) ==
    price * 100 <= min_price * (100 + threshold_percent)

\* cheap_price_coordinator.py: _analyze_cheap_prices (pandas)
AnalyzeCheapPrice(main, now, threshold_percent) ==
    LET all_prices == CollectPrices(main, FALSE)
        \* pd.to_datetime(None) is NaT; NaT >= current_time is False
        dated == SelectSeq(all_prices, LAMBDA p : IsSome(p.start_time))
        sorted == SortByStart(dated, 1, <<>>)
        current_time == now
        df == SelectSeq(sorted, LAMBDA p : Val(p.start_time) >= current_time)
        min_price == SetMin({df[i].price : i \in 1..Len(df)})
        cheap_df == SelectSeq(df, LAMBDA p : IsWithinMaxCheapPrice(p.price, min_price,
                                                                   threshold_percent))
        cheap_ranges == GroupConsecutiveHours(cheap_df, TRUE, FALSE).ranges
    IN  IF all_prices = <<>> \/ df = <<>>
        THEN [EmptyAnalysis(now) EXCEPT !.future_prices = df]
        ELSE IF cheap_df = <<>>
        THEN [cheap_ranges |-> <<>>,
              analysis_info |-> [min_price |-> min_price,
                                 threshold_percent |-> threshold_percent],
              now |-> now, cutoff |-> current_time,
              future_prices |-> df, cheap_prices |-> <<>>]
        ELSE [cheap_ranges |-> cheap_ranges,
              analysis_info |-> [min_price |-> min_price,
                                 threshold_percent |-> threshold_percent,
                                 total_cheap_hours |-> Len(cheap_ranges),
                                 analysis_period_hours |-> Len(df)],
              now |-> now, cutoff |-> current_time,
              future_prices |-> df, cheap_prices |-> cheap_df]

\* sensors/cheap_hours.py: _analyze_cheap_prices.  parse_datetime(None) raises
\* TypeError, which only the outer handler catches: the result is [].
AnalyzeSensor(main, now, base_price, threshold_percent) ==
    LET current_hour_start == HourStart(now)
        priced == CollectPrices(main, TRUE)
        raises == \E i \in 1..Len(priced) : IsNone(priced[i].start_time)
        all_prices ==
            SelectSeq(priced, LAMBDA p : IsSome(p.start_time)
                                         /\ Val(p.start_time) >= current_hour_start)
        sorted == SortByStart(all_prices, 1, <<>>)
        cheap_prices ==
            SelectSeq(sorted,
                      LAMBDA p : IsCheapPrice(p.price, base_price, threshold_percent))
        grouped == GroupConsecutiveHours(cheap_prices, FALSE, TRUE)
    IN  IF raises THEN [EmptyAnalysis(now) EXCEPT !.cutoff = current_hour_start]
        ELSE IF grouped.raised
        THEN [EmptyAnalysis(now) EXCEPT !.cutoff = current_hour_start,
                                        !.future_prices = sorted]
        ELSE [cheap_ranges |-> grouped.ranges, analysis_info |-> <<>>,
              now |-> now, cutoff |-> current_hour_start,
              future_prices |-> sorted, cheap_prices |-> cheap_prices]

(***************************************************************************)
(* coordinator.py: one refresh of the main coordinator.                    *)
(***************************************************************************)
StartTick == DayStart(1)

AvailScenarios ==
    { [yesterday |-> TRUE, today |-> TRUE, tomorrow |-> TRUE],
      [yesterday |-> TRUE, today |-> TRUE, tomorrow |-> FALSE],
      [yesterday |-> FALSE, today |-> TRUE, tomorrow |-> TRUE],
      [yesterday |-> TRUE, today |-> FALSE, tomorrow |-> TRUE] }

Config == MergedConfig(entryData, entryOptions)

HourOfTime(v, default) ==
    IF v.kind = "dict" THEN v.hour ELSE default

\* data["config"]: the night hours extracted from the TimeSelector values
CoordinatorConfig(cfg) ==
    [night_price_start_hour |->
        HourOfTime(CfgGet(cfg, "night_price_start_time", [kind |-> "absent"]),
                   NIGHT_START_HOUR),
     night_price_end_hour |->
        HourOfTime(CfgGet(cfg, "night_price_end_time", [kind |-> "absent"]),
                   NIGHT_END_HOUR)]

NoHistory == [kept |-> FALSE, first |-> None]

NoRuntime == [base_price |-> None, threshold |-> None]

(***************************************************************************)
(* The daily trigger of the cheap-hours coordinator.  A trigger value is a *)
(* TimeDict, a dict holding the hour only, a TimeStr "HH:MM", any other    *)
(* text split at its colons (a part that is no number is None) or a        *)
(* datetime.time.  A listener is the time of day it was registered for.    *)
(***************************************************************************)
TimeText(parts) == [kind |-> "text", parts |-> parts]
TimeHourDict(h) == [kind |-> "dict_hour", hour |-> h]
TimeObject(h, m) == [kind |-> "time", hour |-> h, minute |-> m]
TimeOfDay(h, m) == [hour |-> h, minute |-> m]

IsDict(v) == v.kind \in {"dict", "dict_hour"}
IsStr(v) == v.kind \in {"str", "text"}

\* value.split(":"), each part as int() reads it
SplitParts(v) ==
    IF v.kind = "str" THEN <<Some(v.hour), Some(v.minute)>> ELSE v.parts

\* value.get("minute", default)
DictMinute(v, default) == IF v.kind = "dict" THEN v.minute ELSE default

\* 0 <= hour <= 23 and 0 <= minute <= 59
InTimeRange(hour, minute) ==
    /\ 0 <= hour /\ hour <= LAST_HOUR
    /\ 0 <= minute /\ minute <= LAST_MINUTE

\* const.parse_time_string: the value or ValueError.
ParseTimeString(v) ==
    IF /\ v.kind = "str"
       /\ v.hour \in 0..LAST_HOUR
       /\ v.minute \in 0..LAST_MINUTE
    THEN [ok |-> TRUE, hour |-> v.hour, minute |-> v.minute]
    ELSE [ok |-> FALSE]

DEFAULT_CHEAP_HOURS_UPDATE_TRIGGER == TimeStr(DEFAULT_TRIGGER_HOUR, DEFAULT_TRIGGER_MINUTE)

\* the try block of update_trigger_config: the time to schedule, None where
\* the block raises
UpdateTriggerTime(cfg) ==
    LET trigger_time == CfgGet(cfg, "cheap_hours_update_trigger",
                               DEFAULT_CHEAP_HOURS_UPDATE_TRIGGER)
        def == ParseTimeString(DEFAULT_CHEAP_HOURS_UPDATE_TRIGGER)
        parts == SplitParts(trigger_time)
        time == IF IsDict(trigger_time)
                THEN IF ~def.ok THEN None
                     ELSE Some(TimeOfDay(trigger_time.hour,
                                         DictMinute(trigger_time, def.minute)))
                ELSE IF IsStr(trigger_time)
                THEN IF IsNone(parts[1]) THEN None
                     ELSE IF Len(parts) > 1
                     THEN IF IsNone(parts[2]) THEN None
                          ELSE Some(TimeOfDay(Val(parts[1]), Val(parts[2])))
                     ELSE Some(TimeOfDay(Val(parts[1]), 0))
                ELSE IF def.ok THEN Some(TimeOfDay(def.hour, def.minute)) ELSE None
    IN  IF IsSome(time) /\ InTimeRange(Val(time).hour, Val(time).minute)
        THEN time ELSE None

\* the try block of _update_trigger_schedule_from_runtime
RuntimeTriggerTime(trigger_time) ==
    LET def == ParseTimeString(DEFAULT_CHEAP_HOURS_UPDATE_TRIGGER)
        time == IF ~def.ok THEN None
                ELSE IF IsDict(trigger_time)
                THEN Some(TimeOfDay(trigger_time.hour,
                                    DictMinute(trigger_time, def.minute)))
                ELSE Some(TimeOfDay(def.hour, def.minute))
    IN  IF IsSome(time) /\ InTimeRange(Val(time).hour, Val(time).minute)
        THEN time ELSE None

\* get_runtime_update_trigger: the override, else the configured value with a
\* string converted to a dict (a text that is no number raises)
GetRuntimeUpdateTrigger(tr, cfg) ==
    LET configured == CfgGet(cfg, "cheap_hours_update_trigger",
                             DEFAULT_CHEAP_HOURS_UPDATE_TRIGGER)
        parts == SplitParts(configured)
    IN  IF IsSome(tr.update_trigger) THEN Val(tr.update_trigger)
        ELSE IF IsDict(configured) THEN configured
        ELSE IF IsStr(configured)
        THEN IF IsNone(parts[1]) \/ (Len(parts) > 1 /\ IsNone(parts[2]))
             THEN [kind |-> "raised"]
             ELSE TimeDict(Val(parts[1]), IF Len(parts) > 1 THEN Val(parts[2]) ELSE 0)
        ELSE DEFAULT_CHEAP_HOURS_UPDATE_TRIGGER

\* _get_trigger_time of either coordinator: the configured value as stored
GetTriggerTime(gen, cfg) ==
    IF gen = "cheap_hours"
    THEN CfgGet(cfg, "cheap_hours_update_trigger", DEFAULT_CHEAP_HOURS_UPDATE_TRIGGER)
    ELSE CfgGet(cfg, "cheap_price_update_trigger", DEFAULT_CHEAP_HOURS_UPDATE_TRIGGER)

\* CheapPriceDataUpdateCoordinator.update_trigger_config: no range test
LegacyUpdateTriggerTime(cfg) ==
    LET trigger_time == CfgGet(cfg, "cheap_price_update_trigger",
                               DEFAULT_CHEAP_HOURS_UPDATE_TRIGGER)
        parts == SplitParts(trigger_time)
    IN  IF IsDict(trigger_time)
        THEN Some(TimeOfDay(trigger_time.hour,
                            DictMinute(trigger_time, DEFAULT_TRIGGER_MINUTE)))
        ELSE IF IsNone(parts[1]) \/ (Len(parts) > 1 /\ IsNone(parts[2])) THEN None
        ELSE Some(TimeOfDay(Val(parts[1]), IF Len(parts) > 1 THEN Val(parts[2]) ELSE 0))

RECURSIVE RemoveOne(_, _)
RemoveOne(seq, x) ==
    IF seq = <<>> THEN <<>>
    ELSE IF Head(seq) = x THEN Tail(seq)
    ELSE <<Head(seq)>> \o RemoveOne(Tail(seq), x)

\* the replaced listener is left registered
LeaveTrigger(listeners, unsub) ==
    listeners

\* if self._trigger_unsub: self._trigger_unsub()
CancelTrigger(listeners, unsub) ==
    IF IsSome(unsub) THEN RemoveOne(listeners, Val(unsub)) ELSE listeners

\* "Remove existing trigger" and then async_track_time_change where the try
\* block reaches it (time is None where it raised before)
Reschedule(tr, hs, time) ==
    LET cancelled == CancelTrigger(hs.listeners, tr.trigger_unsub)
    IN  [trigger |-> [tr EXCEPT !.trigger_unsub = time],
         hass |-> [hs EXCEPT !.listeners = IF IsSome(time)
                                           THEN Append(cancelled, Val(time))
                                           ELSE cancelled]]

NoTrigger == [update_trigger |-> None, trigger_unsub |-> None]
NoHass == [listeners |-> <<>>, stopped |-> FALSE, last_fire |-> None]

\* the coordinator's __init__ calls update_trigger_config
Constructed(gen, cfg) ==
    IF gen = "cheap_hours" THEN Reschedule(NoTrigger, NoHass, UpdateTriggerTime(cfg))
    ELSE IF gen = "cheap_price"
    THEN Reschedule(NoTrigger, NoHass, LegacyUpdateTriggerTime(cfg))
    ELSE [trigger |-> NoTrigger, hass |-> NoHass]

\* the coordinator of docker/config before its entry is set up; night,
\* first_in_night and followups_in_night follow the night window of the latest
\* refresh that ran in one
NoLegacy ==
    [now |-> 0, entry |-> None, submitted |-> None, error |-> "none",
     last_update_date |-> None, midnight_check_scheduled |-> FALSE,
     next_refresh |-> None, call_later |-> {},
     night |-> None, first_in_night |-> None, followups_in_night |-> {}]

\* get_runtime_base_price / get_runtime_threshold
GetRuntimeBasePrice(cfg) ==
    IF IsSome(runtime.base_price) THEN Val(runtime.base_price)
    ELSE CfgGet(cfg, "cheap_hours_base_price", CHEAP_HOURS_BASE_PRICE_DEFAULT)

GetRuntimeThreshold(cfg) ==
    IF IsSome(runtime.threshold) THEN Val(runtime.threshold)
    ELSE CfgGet(cfg, "cheap_hours_threshold", CHEAP_HOURS_THRESHOLD_DEFAULT)

HasCheapCoordinator == generation \in {"cheap_hours", "cheap_price"}

HasRealPrices(day) ==
    \E i \in 1..Len(day.hourly_prices) : IsSome(day.hourly_prices[i].actual_price)

\* _async_update_data of the cheap coordinator: None without main data.  The
\* record also keeps main_data, the argument the analysis ran on.
CheapUpdate(gen, main, now, cfg) ==
    IF IsNone(main) THEN None
    ELSE IF gen = "cheap_hours"
    THEN Some(AnalyzeCheapHours(Val(main), now,
                GetRuntimeBasePrice(cfg), GetRuntimeThreshold(cfg))
              @@ [main_data |-> Val(main).days,
                  trigger_time |-> GetTriggerTime(gen, cfg),
                  base_price |-> GetRuntimeBasePrice(cfg),
                  threshold_percent |-> GetRuntimeThreshold(cfg)])
    ELSE Some(AnalyzeCheapPrice(Val(main), now,
                CfgGet(cfg, "cheap_price_threshold", CHEAP_PRICE_THRESHOLD_DEFAULT))
              @@ [main_data |-> Val(main).days,
                  trigger_time |-> GetTriggerTime(gen, cfg),
                  threshold_percent |->
                      CfgGet(cfg, "cheap_price_threshold", CHEAP_PRICE_THRESHOLD_DEFAULT)])

\* The coordinator publishes the object its update returned, an object built
\* by that update.  Where the history is kept it follows the first object
\* published: its content when published (original), its content now
\* (current), and whether it is still the coordinator's data (latest).
PublishInPlace(history, result) ==
    IF ~history.kept THEN history
    ELSE IF IsNone(history.first)
    THEN IF IsNone(result) THEN history
         ELSE [history EXCEPT !.first = Some([original |-> Val(result),
                                              current |-> Val(result),
                                              latest |-> TRUE])]
    ELSE IF IsNone(result) \/ ~Val(history.first).latest
    THEN [history EXCEPT !.first = Some([Val(history.first) EXCEPT !.latest = FALSE])]
    ELSE [history EXCEPT !.first = Some([Val(history.first) EXCEPT
                                            !.current = Val(result)])]

Publish(history, result) ==
    IF ~history.kept THEN history
    ELSE IF IsNone(history.first)
    THEN IF IsNone(result) THEN history
         ELSE [history EXCEPT !.first = Some([original |-> Val(result),
                                              current |-> Val(result),
                                              latest |-> TRUE])]
    ELSE [history EXCEPT !.first = Some([Val(history.first) EXCEPT !.latest = FALSE])]

\* the staleness test with its limit included
IsRecentUpToLimit(main, now) ==
    IsSome(main) /\ now - Val(main).last_sync <= STALE_AFTER_HOURS * TicksPerHour

\* self.data is not None and time_since_sync.total_seconds() < 6 * 3600
IsRecent(main, now) ==
    IsSome(main) /\ now - Val(main).last_sync < STALE_AFTER_HOURS * TicksPerHour

\* time_since_sync, computed when there is data to preserve
TimeSinceSync(main, now) ==
    IF IsSome(main) THEN Some(now - Val(main).last_sync) ELSE None

\* the start-up test without the start-up flag
StartupHookOnEveryRefresh(startup, hasCoordinator) ==
    hasCoordinator

\* if self._is_startup and self._cheap_price_coordinator
StartupHook(startup, hasCoordinator) ==
    startup /\ hasCoordinator

\* RealElectricityPriceDataUpdateCoordinator._async_update_data together with
\* the client's async_get_data.  lastFetch.invoked: the refresh awaited the
\* cheap coordinator's async_manual_update; lastFetch.refresh_requested: that
\* update found no main data and requested a refresh of the main coordinator.  The start-up hook awaits the cheap
\* coordinator's update before the new data is published, so that update
\* reads the data of the previous refresh.
Refresh(avail) ==
    \E r \in {AsyncGetData(clock, market, Config, calendar.holidays, avail,
                          calendar.fails)} :
    LET new == [days |-> r.data, last_sync |-> clock,
                config |-> CoordinatorConfig(Config)]
        hook == StartupHook(isStartup, HasCheapCoordinator)
    IN  /\ IsSome(entryData)
        /\ IF r.outcome = "none"
           THEN /\ mainData' = IF IsRecent(mainData, clock) THEN mainData ELSE None
                /\ lastFetch' = [avail |-> avail, api |-> "none",
                                 update |-> IF IsRecent(mainData, clock)
                                            THEN "preserved" ELSE "none",
                                 time_since_sync |-> TimeSinceSync(mainData, clock),
                                 invoked |-> FALSE, refresh_requested |-> FALSE]
                /\ UNCHANGED <<isStartup, cheapData, published>>
           ELSE IF r.outcome = "raised"
           THEN /\ mainData' = mainData
                /\ lastFetch' = [avail |-> avail, api |-> "raised",
                                 update |-> IF IsRecent(mainData, clock)
                                            THEN "preserved" ELSE "failed",
                                 time_since_sync |-> TimeSinceSync(mainData, clock),
                                 invoked |-> FALSE, refresh_requested |-> FALSE]
                /\ UNCHANGED <<isStartup, cheapData, published>>
           ELSE /\ mainData' = Some(new)
                /\ lastFetch' = [avail |-> avail, api |-> "ok", update |-> "data",
                                 time_since_sync |-> None,
                                 invoked |-> hook /\ HasRealPrices(r.data["tomorrow"]),
                                 refresh_requested |->
                                     /\ hook /\ HasRealPrices(r.data["tomorrow"])
                                     /\ IsNone(mainData)]
                /\ isStartup' = IF hook THEN FALSE ELSE isStartup
                /\ cheapData' = IF hook /\ HasRealPrices(r.data["tomorrow"])
                                THEN CheapUpdate(generation, mainData, clock, Config)
                                ELSE cheapData
                /\ published' = IF hook /\ HasRealPrices(r.data["tomorrow"])
                                THEN Publish(published, cheapData')
                                ELSE published
        /\ UNCHANGED <<clock, market, calendar, generation, entryData,
                       entryOptions, flow, tariffRead, runtime, priceRead,
                   trigger, hass, legacy>>

\* The scheduled trigger or the button: async_manual_update of the cheap
\* coordinator, once main data exists.
CheapManualUpdate ==
    /\ HasCheapCoordinator
    /\ IsSome(mainData)
    /\ cheapData' = CheapUpdate(generation, mainData, clock, Config)
    /\ published' = Publish(published, cheapData')
    /\ UNCHANGED <<clock, market, calendar, generation, entryData, entryOptions,
                   flow, lastFetch, mainData, isStartup, tariffRead, runtime,
                   priceRead,
                   trigger, hass, legacy>>

\* Reading the cheap-hours sensor's attributes without a cheap coordinator:
\* the sensor analyses the main data itself.
SensorAnalysis ==
    /\ generation = "sensor"
    /\ IsSome(mainData)
    /\ cheapData' = Some(AnalyzeSensor(Val(mainData), clock,
                CfgGet(Config, "cheap_hours_base_price", CHEAP_HOURS_BASE_PRICE_DEFAULT),
                CfgGet(Config, "cheap_price_threshold", CHEAP_HOURS_THRESHOLD_DEFAULT))
              @@ [main_data |-> Val(mainData).days,
                  base_price |-> CfgGet(Config, "cheap_hours_base_price",
                                        CHEAP_HOURS_BASE_PRICE_DEFAULT),
                  threshold_percent |-> CfgGet(Config, "cheap_price_threshold",
                                               CHEAP_HOURS_THRESHOLD_DEFAULT)])
    /\ UNCHANGED <<clock, market, calendar, generation, entryData, entryOptions,
                   flow, lastFetch, mainData, isStartup, tariffRead,
                   runtime, priceRead, published,
                   trigger, hass, legacy>>

\* Time passes within the current hour.
Tick ==
    /\ clock - HourStart(clock) < MaxClockTicks
    /\ clock - HourStart(clock) < TicksPerHour - 1
    /\ clock' = clock + 1
    /\ UNCHANGED <<market, calendar, generation, entryData, entryOptions, flow,
                   lastFetch, mainData, isStartup, cheapData, tariffRead,
                   runtime, priceRead, published,
                   trigger, hass, legacy>>

(***************************************************************************)
(* The refresh-and-analysis pipeline over every upstream market.           *)
(***************************************************************************)
DefectDate == DateOf(StartTick)

Markets ==
    [pattern : 0..(NumPatterns - 1), blocks : {FALSE}, defectDate : {DefectDate},
     defect : {NoDefect}]
    \cup [pattern : {1}, blocks : {FALSE}, defectDate : {DefectDate},
          defect : Defects \ {NoDefect}]

Calendars == { [fails |-> FALSE, holidays |-> {}], [fails |-> TRUE, holidays |-> {}] }

NoFetch == [avail |-> [yesterday |-> TRUE, today |-> TRUE, tomorrow |-> TRUE],
            api |-> "never", update |-> "never", time_since_sync |-> None,
            invoked |-> FALSE, refresh_requested |-> FALSE]

Init ==
    /\ clock = StartTick
    /\ market \in Markets
    /\ calendar \in Calendars
    /\ generation \in {"cheap_hours", "cheap_price", "sensor"}
    /\ entryData = Some(DefaultEntry)
    /\ entryOptions = None
    /\ flow = IdleFlow
    /\ lastFetch = NoFetch
    /\ mainData = None
    /\ isStartup = TRUE
    /\ cheapData = None
    /\ tariffRead = None
    /\ runtime = NoRuntime
    /\ trigger = Constructed(generation, Config).trigger
    /\ hass = Constructed(generation, Config).hass
    /\ legacy = NoLegacy
    /\ priceRead = None
    /\ published = NoHistory

Next ==
    \/ \E avail \in AvailScenarios : Refresh(avail)
    \/ CheapManualUpdate
    \/ SensorAnalysis
    \/ Tick

Spec == Init /\ [][Next]_vars

(***************************************************************************)
(* Properties of the day series.                                           *)
(***************************************************************************)
\* the day series the main coordinator holds
HeldDays == IF IsSome(mainData) THEN Val(mainData).days ELSE <<>>

Contiguous(hourly) ==
    \A i \in 1..(Len(hourly) - 1) :
        /\ IsSome(hourly[i].end_time)
        /\ hourly[i].end_time = hourly[i + 1].start_time

\* C1: every day series, built from upstream entries or as a placeholder, has
\* exactly 24 hourly samples, each ending where the next one starts, whatever
\* entries the upstream fetch returned for the date.
\* It is stated for upstream days whose entries are each complete, so that it
\* speaks of the set of entries alone.
C1_DaySeriesHas24ContiguousSamples ==
    market.defect.kind # "damage" =>
        \A k \in DOMAIN HeldDays :
            /\ Len(HeldDays[k].hourly_prices) = HoursPerDay
            /\ Contiguous(HeldDays[k].hourly_prices)

\* C2: in every sample of every day series the consumer price (actual_price)
\* is null exactly when the wholesale price (nord_pool_price) is null.
C2_ConsumerNullIffWholesaleNull ==
    \A k \in DOMAIN HeldDays :
        \A i \in 1..Len(HeldDays[k].hourly_prices) :
            IsNone(HeldDays[k].hourly_prices[i].actual_price)
            <=> IsNone(HeldDays[k].hourly_prices[i].nord_pool_price)

(***************************************************************************)
(* Properties of the cheap-period analysis.                                *)
(***************************************************************************)
CheapRanges == IF IsSome(cheapData) THEN Val(cheapData).cheap_ranges ELSE <<>>

\* the (day, index) positions of the samples the last analysis was given
AnalysedSamples ==
    IF IsNone(cheapData) THEN {}
    ELSE { <<k, i>> \in DayKeySet \X (1..(HoursPerDay + 1)) :
             /\ k \in DOMAIN Val(cheapData).main_data
             /\ i <= Len(Val(cheapData).main_data[k].hourly_prices) }

AnalysedSample(ki) == Val(cheapData).main_data[ki[1]].hourly_prices[ki[2]]

\* C3: the emitted cheap_ranges are in chronological order, do not overlap
\* and do not touch: each range ends strictly before the next one starts; and
\* three cheap hours h, h+1 and h+3 yield exactly the two ranges [h, h+2) with
\* hour_count 2 and [h+3, h+4) with hour_count 1.
\* Stated for upstream days whose entries are each complete.
C3_RangesOrderedDisjointNotTouching ==
    /\ market.defect.kind # "damage" =>
          \A i \in 1..Len(CheapRanges) :
             /\ IsSome(CheapRanges[i].start_time) /\ IsSome(CheapRanges[i].end_time)
             /\ Val(CheapRanges[i].start_time) < Val(CheapRanges[i].end_time)
             /\ \A j \in (i + 1)..Len(CheapRanges) :
                   Val(CheapRanges[i].end_time) < Val(CheapRanges[j].start_time)
    /\ (IsSome(cheapData) /\ market.defect.kind # "damage") =>
          LET cheap == Val(cheapData).cheap_prices
          IN  (/\ Len(cheap) = 3
               /\ cheap[1].end_time = cheap[2].start_time
               /\ Val(cheap[2].end_time) + TicksPerHour = Val(cheap[3].start_time))
              => /\ Len(CheapRanges) = 2
                 /\ CheapRanges[1].start_time = cheap[1].start_time
                 /\ CheapRanges[1].end_time = cheap[2].end_time
                 /\ CheapRanges[1].hour_count = 2
                 /\ CheapRanges[2].start_time = cheap[3].start_time
                 /\ CheapRanges[2].end_time = cheap[3].end_time
                 /\ CheapRanges[2].hour_count = 1

\* C4: the analysis considers exactly the priced samples whose start_time is
\* at or after 'now' rounded down to the hour: the sample of the hour in
\* progress is considered, samples of earlier hours are not.  Stated for
\* upstream data without defects.
C4_ConsidersSamplesFromCurrentHour ==
    (IsSome(cheapData) /\ market.defect = NoDefect) =>
        { p.start_time : p \in { Val(cheapData).future_prices[i] :
                                   i \in 1..Len(Val(cheapData).future_prices) } }
        = { AnalysedSample(ki).start_time :
              ki \in { x \in AnalysedSamples :
                         /\ IsSome(AnalysedSample(x).actual_price)
                         /\ Val(AnalysedSample(x).start_time)
                              >= HourStart(Val(cheapData).now) } }

\* the samples whose start lies within the span of range r
CoveredBy(r) ==
    { ki \in AnalysedSamples :
        /\ IsSome(AnalysedSample(ki).start_time)
        /\ Val(AnalysedSample(ki).start_time) >= Val(r.start_time)
        /\ Val(AnalysedSample(ki).start_time) < Val(r.end_time) }

\* C5: no sample of a placeholder day and no sample without a consumer price
\* lies within a range of cheap_ranges, and a range counts no more hours than
\* the priced samples it covers.
C5_RangesCoverOnlyPricedSamples ==
    \A n \in 1..Len(CheapRanges) :
        (IsSome(CheapRanges[n].start_time) /\ IsSome(CheapRanges[n].end_time)) =>
            /\ \A ki \in CoveredBy(CheapRanges[n]) :
                  /\ IsSome(AnalysedSample(ki).actual_price)
                  /\ Val(cheapData).main_data[ki[1]].data_available
            /\ CheapRanges[n].hour_count <= Cardinality(CoveredBy(CheapRanges[n]))

\* C5 witness: an analysis that was given a placeholder day emitted a range.
C5_Witness ==
    /\ IsSome(cheapData)
    /\ "tomorrow" \in DOMAIN Val(cheapData).main_data
    /\ ~Val(cheapData).main_data["tomorrow"].data_available
    /\ Len(CheapRanges) >= 2
    /\ \E n \in 1..Len(CheapRanges) : CheapRanges[n].hour_count >= 2

(***************************************************************************)
(* Properties of a refresh.                                                *)
(***************************************************************************)
\* the date each key of the held result stands for
HeldDate(k) ==
    HeldDays["today"].date + (IF k = "yesterday" THEN -1 ELSE IF k = "tomorrow" THEN 1 ELSE 0)

IsPlaceholder(day, d) ==
    /\ day.date = d
    /\ ~day.data_available
    /\ Len(day.hourly_prices) = HoursPerDay
    /\ \A i \in 1..HoursPerDay :
          /\ IsNone(day.hourly_prices[i].actual_price)
          /\ IsNone(day.hourly_prices[i].nord_pool_price)
          /\ day.hourly_prices[i].start_time = Some(DayStart(d) + (i - 1) * TicksPerHour)
          /\ day.hourly_prices[i].end_time = Some(DayStart(d) + i * TicksPerHour)

SomeDayMissing == \E k \in DayKeySet : ~lastFetch.avail[k]

ReferenceDay ==
    ModifyPrices([multiAreaEntries |-> <<>> \o WellFormedEntries(market.pattern, DefectDate),
                  blockPriceAggregates |-> IF market.blocks THEN StandardBlocks(DefectDate)
                                           ELSE <<>>],
                 Config, DefectDate, calendar.holidays, FALSE).day

\* C7: an entry that lacks its delivery start, its delivery end or its price
\* for the area is skipped: the refresh still delivers the day, the entry's
\* hour carries no price, and every other hour has the price and the tariff
\* it has without the malformed entry.
C7_MalformedEntryIsSkipped ==
    (/\ market.defect.kind = "damage" /\ ~calendar.fails
     /\ lastFetch.api # "never" /\ lastFetch.avail["today"])
    => /\ lastFetch.update = "data"
       /\ Len(HeldDays["today"].hourly_prices) = HoursPerDay
       /\ \A i \in 1..HoursPerDay :
             IF i = market.defect.pos
             THEN IsNone(HeldDays["today"].hourly_prices[i].actual_price)
             ELSE /\ HeldDays["today"].hourly_prices[i].actual_price
                       = ReferenceDay.hourly_prices[i].actual_price
                  /\ HeldDays["today"].hourly_prices[i].tariff
                       = ReferenceDay.hourly_prices[i].tariff

\* C8 (the refresh): when the holiday lookup fails, a refresh for which
\* today's data was fetched still delivers its result, with is_holiday false
\* on every day and every sample.  Stated for upstream data without defects.
C8_RefreshSurvivesHolidayLookupFailure ==
    (/\ calendar.fails /\ market.defect = NoDefect
     /\ lastFetch.api # "never" /\ lastFetch.avail["today"])
    => /\ lastFetch.update = "data"
       /\ \A k \in DOMAIN HeldDays :
             /\ ~HeldDays[k].is_holiday
             /\ \A i \in 1..Len(HeldDays[k].hourly_prices) :
                   ~HeldDays[k].hourly_prices[i].is_holiday

(***************************************************************************)
(* sensors/current_price.py: the current-tariff sensor.                    *)
(***************************************************************************)
\* CurrentTariffSensor._get_current_tariff_value.  A failing holiday lookup
\* is caught and read as an empty calendar.
CurrentTariffValue(cfg, now, cal) ==
    LET night_start == HourOfTime(CfgGet(cfg, "night_price_start_time",
                                         [kind |-> "absent"]), NIGHT_START_HOUR)
        night_end == HourOfTime(CfgGet(cfg, "night_price_end_time",
                                       [kind |-> "absent"]), NIGHT_END_HOUR)
        local_hour == LocalHour(now)
        country_holidays == IF cal.fails THEN {} ELSE cal.holidays
        dow == Weekday(LocalDate(now))
        is_holiday == LocalDate(now) \in country_holidays
    IN  IF ~CfgGet(cfg, "has_night_tariff", TRUE) THEN "fixed"
        ELSE IF \/ (dow = SATURDAY /\ CfgGet(cfg, "night_tariff_saturday", TRUE))
                \/ (dow = SATURDAY + 1 /\ CfgGet(cfg, "night_tariff_sunday", TRUE))
                \/ (is_holiday /\ CfgGet(cfg, "night_tariff_public_holiday", TRUE))
        THEN "off_peak"
        ELSE IF IsNightHour(night_start, night_end, local_hour) THEN "off_peak"
        ELSE "peak"

\* The state of the sensor is read (native_value).
ReadCurrentTariff ==
    /\ IsSome(entryData)
    /\ tariffRead' = Some([value |-> CurrentTariffValue(Config, clock, calendar),
                           at |-> clock])
    /\ UNCHANGED <<clock, market, calendar, generation, entryData, entryOptions,
                   flow, lastFetch, mainData, isStartup, cheapData,
                   runtime, priceRead, published,
                   trigger, hass, legacy>>

\* CurrentPriceSensor._get_current_price_value: the days are scanned in the
\* order yesterday, today, tomorrow for the first priced sample whose
\* [start_time, end_time) holds the current hour; a sample of that hour
\* without a price is passed over.  parse_datetime(None) raises TypeError,
\* which the loop does not catch.  _round_price rounds to the precision the
\* price already has.
CurrentPriceValue(main, now) ==
    LET hour == HourStart(now)
        of(k) == IF k \in DOMAIN main.days THEN main.days[k].hourly_prices ELSE <<>>
        scanned == of("yesterday") \o of("today") \o of("tomorrow")
        unparsed == {i \in 1..Len(scanned) :
                        IsNone(scanned[i].start_time) \/ IsNone(scanned[i].end_time)}
        found == {i \in 1..Len(scanned) :
                     /\ i \notin unparsed
                     /\ Val(scanned[i].start_time) <= hour
                     /\ hour < Val(scanned[i].end_time)
                     /\ IsSome(scanned[i].actual_price)}
    IN  IF found = {} /\ unparsed = {} THEN [raised |-> FALSE, value |-> None]
        ELSE IF found = {} \/ (unparsed # {} /\ SetMin(unparsed) < SetMin(found))
        THEN [raised |-> TRUE, value |-> None]
        ELSE [raised |-> FALSE,
              value |-> Some(RoundHalfEven(Val(scanned[SetMin(found)].actual_price), 1))]

\* The state of the price sensor is read (CurrentPriceSensor.native_value).
ReadCurrentPrice ==
    /\ IsSome(entryData)
    /\ priceRead' =
          Some((IF IsNone(mainData) THEN [raised |-> FALSE, value |-> None]
                ELSE CurrentPriceValue(Val(mainData), clock))
               @@ [at |-> clock, had_data |-> IsSome(mainData)])
    /\ UNCHANGED <<clock, market, calendar, generation, entryData, entryOptions,
                   flow, lastFetch, mainData, isStartup, cheapData, tariffRead,
                   runtime, published,
                   trigger, hass, legacy>>

(***************************************************************************)
(* Tariff classification: the integration is started at any hour of a      *)
(* Friday, on the Saturday or Sunday after it or on the Thursday before    *)
(* it, with any of the stored night windows and calendar rules; the sample *)
(* tariffs and the sensor are read.                                         *)
(***************************************************************************)
TariffWindows == { <<NIGHT_START_HOUR, NIGHT_END_HOUR>>, <<1, 6>>, <<0, 0>> }

\* The stored settings of the weekend and holiday rules: all on (the
\* default, the keys absent), one of them off, all off.
TariffFlagSettings ==
    { [night_tariff_saturday |-> sat, night_tariff_sunday |-> sun,
       night_tariff_public_holiday |-> hol] :
        <<sat, sun, hol>> \in { <<FALSE, TRUE, TRUE>>, <<TRUE, FALSE, TRUE>>,
                                <<TRUE, TRUE, FALSE>>, <<FALSE, FALSE, FALSE>> } }

\* The entry the initial flow stores when the night tariff is switched off.
FixedTariffEntry ==
    [country_code |-> "EE", vat |-> VAT_DEFAULT, has_night_tariff |-> FALSE]

TariffConfigs ==
    { [DefaultEntry EXCEPT !.night_price_start_time = TimeDict(w[1], 0),
                           !.night_price_end_time = TimeDict(w[2], 0),
                           !.offpeak_strategy = st] :
        w \in TariffWindows, st \in {"night_window", "nord_pool_blocks"} }
    \cup { DefaultEntry @@ f : f \in TariffFlagSettings }
    \cup { FixedTariffEntry }

TariffClocks ==
    { StartTick + h * TicksPerHour : h \in 0..(HoursPerDay - 1) }
    \cup { StartTick + (HoursPerDay + h) * TicksPerHour : h \in {0, 12} }
    \cup { StartTick + (2 * HoursPerDay + 12) * TicksPerHour }
    \cup { StartTick - 12 * TicksPerHour }

TariffMarkets ==
    [pattern : {0}, blocks : BOOLEAN, defectDate : {DefectDate}, defect : {NoDefect}]

TariffCalendars ==
    { [fails |-> FALSE, holidays |-> {}],
      [fails |-> FALSE, holidays |-> {DateOf(StartTick)}],
      [fails |-> TRUE, holidays |-> {DateOf(StartTick)}] }

TariffScenarios ==
    { [yesterday |-> TRUE, today |-> TRUE, tomorrow |-> TRUE],
      [yesterday |-> TRUE, today |-> TRUE, tomorrow |-> FALSE] }

InitTariff ==
    /\ clock \in TariffClocks
    /\ market \in TariffMarkets
    /\ calendar \in TariffCalendars
    /\ generation = "sensor"
    /\ entryData \in { Some(cfg) : cfg \in TariffConfigs }
    /\ entryOptions = None
    /\ flow = IdleFlow
    /\ lastFetch = NoFetch
    /\ mainData = None
    /\ isStartup = TRUE
    /\ cheapData = None
    /\ tariffRead = None
    /\ runtime = NoRuntime
    /\ trigger = Constructed(generation, Config).trigger
    /\ hass = Constructed(generation, Config).hass
    /\ legacy = NoLegacy
    /\ priceRead = None
    /\ published = NoHistory

NextTariff ==
    \/ \E avail \in TariffScenarios : Refresh(avail)
    \/ ReadCurrentTariff
    \/ ReadCurrentPrice

SpecTariff == InitTariff /\ [][NextTariff]_vars

(***************************************************************************)
(* Claims about the tariff classification.                                 *)
(***************************************************************************)
ConfiguredNightStart ==
    HourOfTime(CfgGet(Config, "night_price_start_time", [kind |-> "absent"]),
               NIGHT_START_HOUR)
ConfiguredNightEnd ==
    HourOfTime(CfgGet(Config, "night_price_end_time", [kind |-> "absent"]),
               NIGHT_END_HOUR)

\* No calendar rule forces the instant t to night: neither its UTC date nor
\* its local date is a Saturday, a Sunday or a public holiday.
NotForcedToNight(t) ==
    \A d \in {DateOf(t), LocalDate(t)} :
        Weekday(d) < SATURDAY /\ d \notin calendar.holidays

InNightWindow(t) ==
    IsNightHour(ConfiguredNightStart, ConfiguredNightEnd, LocalHour(t))

NightWindowStrategy ==
    /\ CfgGet(Config, "has_night_tariff", TRUE)
    /\ CfgGet(Config, "offpeak_strategy", "night_window") = "night_window"

SamplesFollowNightWindow(fromPlaceholder) ==
    \A k \in DOMAIN HeldDays :
        HeldDays[k].data_available # fromPlaceholder =>
            \A i \in DOMAIN HeldDays[k].hourly_prices :
                LET s == HeldDays[k].hourly_prices[i]
                IN  IsSome(s.start_time) /\ NotForcedToNight(Val(s.start_time)) =>
                        s.tariff = IF InNightWindow(Val(s.start_time))
                                   THEN "night" ELSE "day"

SensorFollowsNightWindow ==
    IsSome(tariffRead) /\ NotForcedToNight(Val(tariffRead).at) =>
        Val(tariffRead).value = IF InNightWindow(Val(tariffRead).at)
                                THEN "off_peak" ELSE "peak"

\* C10: under the night_window strategy, on a date no calendar rule forces to
\* night, a local hour is night exactly when it lies in the configured window
\* (from start to end, over midnight when start > end); this holds of the
\* tariff of every sample built from upstream entries, of every sample of a
\* placeholder day and of the current-tariff lookup.
C10_NightWindowRuleEverywhere ==
    NightWindowStrategy =>
        /\ SamplesFollowNightWindow(FALSE)
        /\ SamplesFollowNightWindow(TRUE)
        /\ SensorFollowsNightWindow

(***************************************************************************)
(* config_flow.py: validation and the two flows.                           *)
(***************************************************************************)
VALID_COUNTRY_CODES ==
    {"EE", "FI", "LV", "LT", "SE1", "SE2", "SE3", "SE4", "NO1", "NO2", "NO3",
     "NO4", "NO5", "DK1", "DK2", "DE-LU", "NL", "BE", "FR", "AT", "PL", "GB"}

VAT_MAX == 100
DEFAULT_SCAN_INTERVAL == 3600
SCAN_INTERVAL_MIN == 300
SCAN_INTERVAL_MAX == 86400

\* str.upper() on the codes the inputs use.
Upper(code) ==
    CASE code = "ee" -> "EE"
      [] code = "xx" -> "XX"
      [] OTHER -> code

AbsentTime == [kind |-> "absent"]

\* The hour extraction of validate_input: the hour, a ValueError turned into
\* InvalidTimeFormat, or InvalidTimeFormat for a value of another type.
ExtractHour(v) ==
    IF v.kind = "dict" THEN [ok |-> TRUE, hour |-> v.hour]
    ELSE IF v.kind = "str" THEN ParseTimeString(v)
    ELSE [ok |-> FALSE]

\* _to_dict_time, applied as the normalisation applies it: the value is
\* replaced only when the conversion gives a dict.
ToDictTime(v) ==
    IF v.kind = "dict" THEN TimeDict(v.hour, v.minute)
    ELSE IF ParseTimeString(v).ok THEN TimeDict(v.hour, v.minute)
    ELSE v

\* The window check of validate_input without the test that start and end
\* differ.
NightWindowErrorIgnoringEqualHours(data) ==
    LET start_val == CfgGet(data, "night_price_start_time", AbsentTime)
        end_val == CfgGet(data, "night_price_end_time", AbsentTime)
    IN  IF start_val.kind = "absent" \/ end_val.kind = "absent"
        THEN "invalid_time_format"
        ELSE IF ~ExtractHour(start_val).ok \/ ~ExtractHour(end_val).ok
        THEN "invalid_time_format"
        ELSE IF ~(/\ ExtractHour(start_val).hour \in 0..LAST_HOUR
                  /\ ExtractHour(end_val).hour \in 0..LAST_HOUR)
        THEN "invalid_hour_range"
        ELSE "none"

\* validate_input, the night-window branch: the error raised, or "none".
NightWindowError(data) ==
    LET start_val == CfgGet(data, "night_price_start_time", AbsentTime)
        end_val == CfgGet(data, "night_price_end_time", AbsentTime)
    IN  IF start_val.kind = "absent" \/ end_val.kind = "absent"
        THEN "invalid_time_format"
        ELSE IF ~ExtractHour(start_val).ok \/ ~ExtractHour(end_val).ok
        THEN "invalid_time_format"
        ELSE IF ~(/\ ExtractHour(start_val).hour \in 0..LAST_HOUR
                  /\ ExtractHour(end_val).hour \in 0..LAST_HOUR)
        THEN "invalid_hour_range"
        ELSE IF /\ ExtractHour(start_val).hour = ExtractHour(end_val).hour
                /\ ExtractHour(end_val).hour # 0
        THEN "invalid_night_hours"
        ELSE "none"

\* The normalisation of the two times into dicts.
NormalizeTimes(data) ==
    [k \in DOMAIN data |->
        IF k \in {"night_price_start_time", "night_price_end_time"}
        THEN ToDictTime(data[k]) ELSE data[k]]

\* validate_input: the error it raises ("none" when it returns) and data as
\* it leaves it; data is normalised in place only on the night-window branch.
ValidateInput(data) ==
    LET has_night_tariff == CfgGet(data, "has_night_tariff", TRUE)
        strategy == CfgGet(data, "offpeak_strategy", "night_window")
        windowed == has_night_tariff /\ strategy = "night_window"
        scan_interval == CfgGet(data, "scan_interval", DEFAULT_SCAN_INTERVAL)
        error ==
            IF Upper(CfgGet(data, "country_code", "")) \notin VALID_COUNTRY_CODES
            THEN "invalid_country_code"
            ELSE IF CfgGet(data, "vat", 0) \notin 0..VAT_MAX
            THEN "invalid_vat_rate"
            ELSE IF scan_interval < SCAN_INTERVAL_MIN \/ scan_interval > SCAN_INTERVAL_MAX
            THEN "invalid_scan_interval"
            ELSE IF windowed THEN NightWindowError(data)
            ELSE "none"
    IN  [error |-> error,
         data |-> IF error = "none" /\ windowed THEN NormalizeTimes(data) ELSE data]

\* What the selectors of the form schemas let through to the step handlers.
UserSchemaAccepts(input) ==
    /\ input.country_code \in VALID_COUNTRY_CODES
    /\ input.vat \in 0..VAT_MAX
    /\ input.scan_interval \in SCAN_INTERVAL_MIN..SCAN_INTERVAL_MAX

TimeSelectorAccepts(input) ==
    \A k \in DOMAIN input \cap {"night_price_start_time", "night_price_end_time"} :
        ParseTimeString(input[k]).ok

\* The forms a user may submit.
BaseUserInput ==
    [country_code |-> "EE", vat |-> VAT_DEFAULT,
     scan_interval |-> DEFAULT_SCAN_INTERVAL, has_night_tariff |-> TRUE]

UserInputs ==
    { BaseUserInput,
      [BaseUserInput EXCEPT !.has_night_tariff = FALSE],
      [BaseUserInput EXCEPT !.country_code = "FI", !.vat = VAT_MAX],
      [BaseUserInput EXCEPT !.country_code = "xx"],
      [BaseUserInput EXCEPT !.country_code = "ee"],
      [BaseUserInput EXCEPT !.vat = VAT_MAX + 1],
      [BaseUserInput EXCEPT !.scan_interval = SCAN_INTERVAL_MIN - 1] }

StrategyInputs ==
    { [offpeak_strategy |-> st] : st \in {"night_window", "nord_pool_blocks"} }

TimeInputs ==
    { [night_price_start_time |-> TimeStr(a, 0), night_price_end_time |-> TimeStr(b, 0)] :
        a \in {NIGHT_START_HOUR, 5, 0, LAST_HOUR + 1}, b \in {NIGHT_END_HOUR, 5, 0} }

\* The options form shows the time fields only while the stored configuration
\* has the night tariff on under the night-window strategy.
OptionsShowTimes(data, options) ==
    /\ CfgGet(options, "has_night_tariff", CfgGet(data, "has_night_tariff", TRUE))
    /\ CfgGet(options, "offpeak_strategy",
              CfgGet(data, "offpeak_strategy", "night_window")) = "night_window"

OptionsInputs(data, options) ==
    LET basic == { u @@ st : u \in UserInputs, st \in StrategyInputs }
    IN  IF OptionsShowTimes(data, options)
        THEN { b @@ t : b \in basic, t \in TimeInputs }
        ELSE basic

\* The flow is opened: async_step_user(None) shows the first form.
StartConfigFlow ==
    /\ flow.step = "idle"
    /\ IsNone(entryData)
    /\ flow' = [step |-> "user", user_data |-> <<>>, errors |-> "none"]
    /\ UNCHANGED <<clock, market, calendar, generation, entryData, entryOptions,
                   lastFetch, mainData, isStartup, cheapData, tariffRead,
                   runtime, priceRead, published,
                   trigger, hass, legacy>>

\* async_step_user with a form; the next step shows its own form.
SubmitUser ==
    /\ flow.step = "user"
    /\ \E input \in UserInputs :
        /\ UserSchemaAccepts(input)
        /\ flow' = [step |-> IF CfgGet(input, "has_night_tariff", TRUE)
                             THEN "offpeak_strategy" ELSE "chart_colors",
                    user_data |-> input, errors |-> "none"]
    /\ UNCHANGED <<clock, market, calendar, generation, entryData, entryOptions,
                   lastFetch, mainData, isStartup, cheapData, tariffRead,
                   runtime, priceRead, published,
                   trigger, hass, legacy>>

\* async_step_offpeak_strategy with a form.
SubmitOffpeakStrategy ==
    /\ flow.step = "offpeak_strategy"
    /\ \E input \in StrategyInputs :
        LET merged == input @@ flow.user_data
        IN  flow' = [step |-> IF CfgGet(merged, "offpeak_strategy", "night_window")
                                  = "nord_pool_blocks"
                              THEN "block_tariffs" ELSE "night_times",
                     user_data |-> merged, errors |-> "none"]
    /\ UNCHANGED <<clock, market, calendar, generation, entryData, entryOptions,
                   lastFetch, mainData, isStartup, cheapData, tariffRead,
                   runtime, priceRead, published,
                   trigger, hass, legacy>>

\* async_step_night_times with a form: the times are merged and passed on.
SubmitNightTimes ==
    /\ flow.step = "night_times"
    /\ \E input \in TimeInputs :
        /\ TimeSelectorAccepts(input)
        /\ flow' = [step |-> "chart_colors", user_data |-> input @@ flow.user_data,
                    errors |-> "none"]
    /\ UNCHANGED <<clock, market, calendar, generation, entryData, entryOptions,
                   lastFetch, mainData, isStartup, cheapData, tariffRead,
                   runtime, priceRead, published,
                   trigger, hass, legacy>>

\* async_step_block_tariffs with a form (the block prices keep their defaults).
SubmitBlockTariffs ==
    /\ flow.step = "block_tariffs"
    /\ \E r \in {ValidateInput(flow.user_data)} :
        flow' = IF r.error = "none"
                THEN [step |-> "chart_colors", user_data |-> r.data, errors |-> "none"]
                ELSE [flow EXCEPT !.errors = r.error]
    /\ UNCHANGED <<clock, market, calendar, generation, entryData, entryOptions,
                   lastFetch, mainData, isStartup, cheapData, tariffRead,
                   runtime, priceRead, published,
                   trigger, hass, legacy>>

\* async_step_chart_colors with a form (the colours keep their defaults): the
\* merged answers are validated and the entry is created from them.
SubmitChartColors ==
    /\ flow.step = "chart_colors"
    /\ \E r \in {ValidateInput(flow.user_data)} :
        IF r.error = "none"
        THEN /\ entryData' = Some(r.data)
             /\ flow' = IdleFlow
        ELSE /\ flow' = [flow EXCEPT !.errors = r.error]
             /\ UNCHANGED entryData
    /\ UNCHANGED <<clock, market, calendar, generation, entryOptions,
                   lastFetch, mainData, isStartup, cheapData, tariffRead,
                   runtime, priceRead, published,
                   trigger, hass, legacy>>

\* OptionsFlowHandler.async_step_init(None) shows the options form.
StartOptionsFlow ==
    /\ flow.step = "idle"
    /\ IsSome(entryData)
    /\ flow' = [step |-> "options_init", user_data |-> <<>>, errors |-> "none"]
    /\ UNCHANGED <<clock, market, calendar, generation, entryData, entryOptions,
                   lastFetch, mainData, isStartup, cheapData, tariffRead,
                   runtime, priceRead, published,
                   trigger, hass, legacy>>

\* OptionsFlowHandler.async_step_init with a form: the form alone is validated
\* and stored as the options; the update listener reloads the entry.
SubmitOptions ==
    /\ flow.step = "options_init"
    /\ \E input \in OptionsInputs(Val(entryData),
                                  IF IsSome(entryOptions) THEN Val(entryOptions) ELSE <<>>) :
        /\ UserSchemaAccepts(input)
        /\ TimeSelectorAccepts(input)
        /\ \E r \in {ValidateInput(input)} :
            IF r.error = "none"
            THEN /\ entryOptions' = Some(r.data)
                 /\ flow' = IdleFlow
                 /\ lastFetch' = NoFetch
                 /\ mainData' = None
                 /\ isStartup' = TRUE
                 /\ cheapData' = None
                 /\ runtime' = NoRuntime
                 /\ trigger' = Constructed(generation, MergedConfig(entryData, Some(r.data))).trigger
                 /\ hass' = Constructed(generation, MergedConfig(entryData, Some(r.data))).hass
            ELSE /\ flow' = [flow EXCEPT !.errors = r.error]
                 /\ UNCHANGED <<entryOptions, lastFetch, mainData, isStartup,
                                cheapData, runtime, trigger, hass>>
    /\ UNCHANGED <<clock, market, calendar, generation, entryData, tariffRead,
                   priceRead, published, legacy>>

(***************************************************************************)
(* Configuration: the integration is set up through the initial flow and   *)
(* then reconfigured through the options flow.                             *)
(***************************************************************************)
InitConfig ==
    /\ clock = StartTick
    /\ market = [pattern |-> 0, blocks |-> FALSE, defectDate |-> DefectDate,
                 defect |-> NoDefect]
    /\ calendar = [fails |-> FALSE, holidays |-> {}]
    /\ generation = "cheap_hours"
    /\ entryData = None
    /\ entryOptions = None
    /\ flow = IdleFlow
    /\ lastFetch = NoFetch
    /\ mainData = None
    /\ isStartup = TRUE
    /\ cheapData = None
    /\ tariffRead = None
    /\ runtime = NoRuntime
    /\ trigger = Constructed(generation, Config).trigger
    /\ hass = Constructed(generation, Config).hass
    /\ legacy = NoLegacy
    /\ priceRead = None
    /\ published = NoHistory

NextConfig ==
    \/ StartConfigFlow
    \/ SubmitUser
    \/ SubmitOffpeakStrategy
    \/ SubmitNightTimes
    \/ SubmitBlockTariffs
    \/ SubmitChartColors
    \/ StartOptionsFlow
    \/ SubmitOptions

SpecConfig == InitConfig /\ [][NextConfig]_vars

(***************************************************************************)
(* Claims about configuration.                                             *)
(***************************************************************************)
\* The configurations the entry holds: its data, its options, and the merge
\* of the two that the integration runs with.
StoredConfigs ==
    (IF IsSome(entryData) THEN {Val(entryData), Config} ELSE {})
    \cup (IF IsSome(entryOptions) THEN {Val(entryOptions)} ELSE {})

StoredTimes(cfg) ==
    { cfg[k] : k \in DOMAIN cfg \cap {"night_price_start_time", "night_price_end_time"} }

HourOutOfRange(cfg) ==
    \E v \in StoredTimes(cfg) : v.hour \notin 0..LAST_HOUR

EqualNonZeroHours(cfg) ==
    /\ {"night_price_start_time", "night_price_end_time"} \subseteq DOMAIN cfg
    /\ cfg["night_price_start_time"].hour = cfg["night_price_end_time"].hour
    /\ cfg["night_price_end_time"].hour # 0

UnsupportedCountry(cfg) ==
    "country_code" \in DOMAIN cfg /\ cfg["country_code"] \notin VALID_COUNTRY_CODES

TaxOutOfRange(cfg) ==
    "vat" \in DOMAIN cfg /\ cfg["vat"] \notin 0..VAT_MAX

UsesNightWindow(cfg) ==
    /\ CfgGet(cfg, "has_night_tariff", TRUE)
    /\ CfgGet(cfg, "offpeak_strategy", "night_window") = "night_window"

\* C9 as stated: no configuration with a night-window hour outside 0-23, with
\* equal start and end hours other than 0, with an unsupported country code
\* or with a tax rate outside 0-100 is ever accepted and stored.
C9_NoInvalidConfigurationStored ==
    \A cfg \in StoredConfigs :
        /\ ~HourOutOfRange(cfg)
        /\ ~EqualNonZeroHours(cfg)
        /\ ~UnsupportedCountry(cfg)
        /\ ~TaxOutOfRange(cfg)

\* C9, amended: no stored configuration has an unsupported country code or a
\* tax rate outside 0-100, and no stored configuration that uses the night
\* window (night tariff on, night_window strategy) lacks a time, has an hour
\* outside 0-23 or has equal start and end hours other than 0; the times a
\* configuration keeps while it does not use the window are not validated.
C9_NoInvalidNightWindowInUse ==
    \A cfg \in StoredConfigs :
        /\ ~UnsupportedCountry(cfg)
        /\ ~TaxOutOfRange(cfg)
        /\ UsesNightWindow(cfg) =>
            /\ {"night_price_start_time", "night_price_end_time"} \subseteq DOMAIN cfg
            /\ ~HourOutOfRange(cfg)
            /\ ~EqualNonZeroHours(cfg)

\* The initial flow has taken equal hours in its night_times step and has
\* refused them in its last step, and no entry exists.
C9_Witness ==
    /\ flow.step = "chart_colors"
    /\ flow.errors = "invalid_night_hours"
    /\ UsesNightWindow(flow.user_data)
    /\ EqualNonZeroHours(flow.user_data)
    /\ IsNone(entryData)

(***************************************************************************)
(* Claims about the calendar rule, the block strategy and the fixed        *)
(* tariff.                                                                 *)
(***************************************************************************)
\* The holidays a working lookup reports; a failing lookup reports none.
KnownHolidays == IF calendar.fails THEN {} ELSE calendar.holidays

\* The calendar rule: the date is night for all of its hours.
OverriddenDate(d) ==
    \/ Weekday(d) = SATURDAY /\ CfgGet(Config, "night_tariff_saturday", TRUE)
    \/ Weekday(d) = SATURDAY + 1 /\ CfgGet(Config, "night_tariff_sunday", TRUE)
    \/ d \in KnownHolidays /\ CfgGet(Config, "night_tariff_public_holiday", TRUE)

WeekendOrHoliday(d) == Weekday(d) >= SATURDAY \/ d \in KnownHolidays

\* The tariff the calendar rule and the night window give at instant t, in
\* the labels of the samples.
CalendarRuleHolds(t, tariff, night, day) ==
    /\ OverriddenDate(LocalDate(t)) => tariff = night
    /\ (/\ NightWindowStrategy
        /\ WeekendOrHoliday(LocalDate(t))
        /\ ~OverriddenDate(LocalDate(t)))
       => tariff = IF InNightWindow(t) THEN night ELSE day

SamplesFollowCalendarRule ==
    \A k \in DOMAIN HeldDays :
        \A i \in DOMAIN HeldDays[k].hourly_prices :
            LET s == HeldDays[k].hourly_prices[i]
            IN  IsSome(s.start_time) =>
                    CalendarRuleHolds(Val(s.start_time), s.tariff, "night", "day")

SensorFollowsCalendarRule ==
    IsSome(tariffRead) =>
        CalendarRuleHolds(Val(tariffRead).at, Val(tariffRead).value,
                          "off_peak", "peak")

\* C11: with the night tariff on, a date is night for all 24 hours exactly
\* when it is a Saturday, a Sunday or a holiday whose override flag is set;
\* with the flag not set such a date is classified hour by hour (here: by
\* the night window) like any other date.  This holds of the tariff of every
\* sample of both builder paths and of the current-tariff lookup.
C11_CalendarRuleFollowsOverrideFlags ==
    CfgGet(Config, "has_night_tariff", TRUE) =>
        /\ SamplesFollowCalendarRule
        /\ SensorFollowsCalendarRule

BlockStrategy ==
    /\ CfgGet(Config, "has_night_tariff", TRUE)
    /\ CfgGet(Config, "offpeak_strategy", "night_window") = "nord_pool_blocks"

\* The tariff of the market block that holds instant t, night when the market
\* supplied no block for it.
MarketBlockTariff(t) ==
    IF market.blocks THEN BlockTariff(StandardBlocks(DateOf(t)), 1, t) ELSE "night"

RealSamplesFollowBlocks ==
    \A k \in DOMAIN HeldDays :
        HeldDays[k].data_available =>
            \A i \in DOMAIN HeldDays[k].hourly_prices :
                LET s == HeldDays[k].hourly_prices[i]
                IN  IsSome(s.start_time) /\ NotForcedToNight(Val(s.start_time)) =>
                        s.tariff = MarketBlockTariff(Val(s.start_time))

SensorFollowsBlocks ==
    IsSome(tariffRead) /\ NotForcedToNight(Val(tariffRead).at) =>
        Val(tariffRead).value =
            IF MarketBlockTariff(HourStart(Val(tariffRead).at)) = "night"
            THEN "off_peak" ELSE "peak"

\* C12: under the block strategy, on a date no calendar rule forces to night,
\* the tariff of an hour is that of the market block whose half-open interval
\* holds the start of the hour, whatever the configured night window, and
\* night when no block holds it; this holds of the samples built from
\* upstream entries and of the current-tariff lookup.
C12_BlockStrategyFollowsMarketBlocks ==
    BlockStrategy =>
        /\ RealSamplesFollowBlocks
        /\ SensorFollowsBlocks

\* C13: with the night tariff switched off every tariff is fixed: the tariff
\* of every sample of every day series, built from upstream entries or as a
\* placeholder, and the current-tariff lookup, at every hour and on weekends
\* and holidays alike.
C13_NoNightTariffMeansFixedEverywhere ==
    ~CfgGet(Config, "has_night_tariff", TRUE) =>
        /\ \A k \in DOMAIN HeldDays :
              \A i \in DOMAIN HeldDays[k].hourly_prices :
                  HeldDays[k].hourly_prices[i].tariff = "fixed"
        /\ IsSome(tariffRead) => Val(tariffRead).value = "fixed"

(***************************************************************************)
(* Claims about the consumer price.                                        *)
(***************************************************************************)
\* A component with the tax added when its own flag is set, in 1/100 of the
\* price unit.
Taxed(component, flagKey, flagDefault) ==
    component * (100 + IF CfgGet(Config, flagKey, flagDefault)
                       THEN CfgGet(Config, "vat", VAT_DEFAULT) ELSE 0)

\* The consumer price the six components give for a wholesale price (already
\* per kWh) and a transmission bucket, rounded to the price unit.
ExpectedConsumerPrice(base, bucket) ==
    RoundHalfEven(
        Taxed(base, "vat_nord_pool", TRUE)
        + Taxed(CfgGet(Config, "grid_electricity_excise_duty",
                       GRID_ELECTRICITY_EXCISE_DUTY_DEFAULT),
                "vat_grid_electricity_excise_duty", FALSE)
        + Taxed(CfgGet(Config, "grid_renewable_energy_charge",
                       GRID_RENEWABLE_ENERGY_CHARGE_DEFAULT),
                "vat_grid_renewable_energy_charge", FALSE)
        + Taxed(CfgGet(Config, "supplier_renewable_energy_charge",
                       SUPPLIER_RENEWABLE_ENERGY_CHARGE_DEFAULT),
                "vat_supplier_renewable_energy_charge", FALSE)
        + Taxed(CfgGet(Config, "supplier_margin", SUPPLIER_MARGIN_DEFAULT),
                "vat_supplier_margin", FALSE)
        + (IF bucket = "night"
           THEN Taxed(CfgGet(Config, "grid_electricity_transmission_price_night",
                             GRID_ELECTRICITY_TRANSMISSION_PRICE_NIGHT_DEFAULT),
                      "vat_grid_transmission_night", FALSE)
           ELSE Taxed(CfgGet(Config, "grid_electricity_transmission_price_day",
                             GRID_ELECTRICITY_TRANSMISSION_PRICE_DAY_DEFAULT),
                      "vat_grid_transmission_day", FALSE)),
        100)

\* The samples that carry a wholesale price.
PricedSamples ==
    { HeldDays[k].hourly_prices[i] :
        <<k, i>> \in { <<k, i>> \in DayKeySet \X (1..(HoursPerDay + 1)) :
                         /\ k \in DOMAIN HeldDays
                         /\ i \in DOMAIN HeldDays[k].hourly_prices
                         /\ IsSome(HeldDays[k].hourly_prices[i].nord_pool_price) } }

\* C14: for every sample with a wholesale price the consumer price is the
\* sum of the six components, each with the tax added exactly when its own
\* flag is set, rounded to 6 fractional digits; the transmission component is
\* the night or the day one.
C14_ConsumerPriceIsTaxedSumOfComponents ==
    \A s \in PricedSamples :
        /\ IsSome(s.actual_price)
        /\ Val(s.actual_price) \in
              { ExpectedConsumerPrice(Val(s.nord_pool_price), b) : b \in {"night", "day"} }

(***************************************************************************)
(* The cheap-period analysers, with the runtime settings of the number     *)
(* entities and the history of the results the coordinator has published.  *)
(***************************************************************************)
\* CheapHoursBasePriceEntity.async_set_native_value: the value is stored and
\* nothing is recomputed
SetRuntimeBasePrice(value) ==
    /\ generation = "cheap_hours"
    /\ value >= 0 /\ value <= PRICE_UNIT
    /\ runtime' = [runtime EXCEPT !.base_price = Some(value)]
    /\ UNCHANGED <<clock, market, calendar, generation, entryData, entryOptions,
                   flow, lastFetch, mainData, isStartup, cheapData, tariffRead,
                   priceRead, published,
                   trigger, hass, legacy>>

\* CheapHoursThresholdEntity.async_set_native_value
SetRuntimeThreshold(value) ==
    /\ generation = "cheap_hours"
    /\ value >= 0 /\ value <= THRESHOLD_MAX
    /\ runtime' = [runtime EXCEPT !.threshold = Some(value)]
    /\ UNCHANGED <<clock, market, calendar, generation, entryData, entryOptions,
                   flow, lastFetch, mainData, isStartup, cheapData, tariffRead,
                   priceRead, published,
                   trigger, hass, legacy>>

\* An entry whose consumer price is the wholesale price per kWh: no tax on the
\* wholesale price and every other component 0.
ZeroCostEntry ==
    DefaultEntry @@ [vat_nord_pool |-> FALSE,
                     grid_electricity_excise_duty |-> 0,
                     grid_renewable_energy_charge |-> 0,
                     grid_electricity_transmission_price_night |-> 0,
                     grid_electricity_transmission_price_day |-> 0,
                     supplier_renewable_energy_charge |-> 0,
                     supplier_margin |-> 0,
                     cheap_hours_base_price |-> 100000]

CheapConfigs == {DefaultEntry, ZeroCostEntry}

RuntimeBasePrices == {120000}

RuntimeThresholds == {70}

\* Friday 00:00, Friday 20:00 and Friday 23:00 UTC
CheapClocks ==
    {StartTick, StartTick + 20 * TicksPerHour, StartTick + LAST_HOUR * TicksPerHour}

CheapMarkets ==
    [pattern : 0..(NumPatterns - 1), blocks : {FALSE}, defectDate : {DefectDate},
     defect : {NoDefect}]

CheapScenarios ==
    { [yesterday |-> TRUE, today |-> TRUE, tomorrow |-> TRUE],
      [yesterday |-> TRUE, today |-> TRUE, tomorrow |-> FALSE] }

InitCheap ==
    /\ clock \in CheapClocks
    /\ market \in CheapMarkets
    /\ calendar = [fails |-> FALSE, holidays |-> {}]
    /\ generation \in {"cheap_hours", "cheap_price", "sensor"}
    /\ entryData \in { Some(cfg) : cfg \in CheapConfigs }
    /\ entryOptions = None
    /\ flow = IdleFlow
    /\ lastFetch = NoFetch
    /\ mainData = None
    /\ isStartup = TRUE
    /\ cheapData = None
    /\ tariffRead = None
    /\ runtime = NoRuntime
    /\ trigger = Constructed(generation, Config).trigger
    /\ hass = Constructed(generation, Config).hass
    /\ legacy = NoLegacy
    /\ priceRead = None
    /\ published = NoHistory

NextCheap ==
    \/ \E avail \in CheapScenarios : Refresh(avail)
    \/ CheapManualUpdate
    \/ SensorAnalysis
    \/ Tick
    \/ \E value \in RuntimeBasePrices : SetRuntimeBasePrice(value)
    \/ \E value \in RuntimeThresholds : SetRuntimeThreshold(value)

SpecCheap == InitCheap /\ [][NextCheap]_vars

\* the future samples the last analysis looked at
FutureSamples ==
    IF IsNone(cheapData) THEN {}
    ELSE { Val(cheapData).future_prices[i] : i \in 1..Len(Val(cheapData).future_prices) }

\* a sample's start lies within a range of cheap_ranges
InCheapRange(p) ==
    \E n \in 1..Len(CheapRanges) :
        /\ Val(CheapRanges[n].start_time) <= Val(p.start_time)
        /\ Val(p.start_time) < Val(CheapRanges[n].end_time)

\* price <= base_price, or price <= base_price * (1 + threshold_percent / 100)
CheapByBasePrice(price, base_price, threshold_percent) ==
    \/ price <= base_price
    \/ price * 100 <= base_price * (100 + threshold_percent)

FuturePrices ==
    [i \in 1..Len(Val(cheapData).future_prices) |-> Val(cheapData).future_prices[i].price]

\* the future prices 0.10, 0.12, 0.20, 0.11 under a threshold of 10 %
FourPriceExample ==
    /\ IsSome(cheapData)
    /\ generation = "cheap_price"
    /\ FuturePrices = <<100000, 120000, 200000, 110000>>
    /\ Val(cheapData).threshold_percent = 10

SamplesAt(t) ==
    { HeldDays[k].hourly_prices[i] :
        <<k, i>> \in { <<k, i>> \in DayKeySet \X (1..(HoursPerDay + 1)) :
                         /\ k \in DOMAIN HeldDays
                         /\ i \in DOMAIN HeldDays[k].hourly_prices
                         /\ IsSome(HeldDays[k].hourly_prices[i].start_time)
                         /\ IsSome(HeldDays[k].hourly_prices[i].end_time)
                         /\ Val(HeldDays[k].hourly_prices[i].start_time) <= t
                         /\ t < Val(HeldDays[k].hourly_prices[i].end_time) } }

\* off_peak and peak are other names of night and day
TariffBucket(name) ==
    IF name = "off_peak" THEN "night" ELSE IF name = "peak" THEN "day" ELSE name

CurrentPriceIsSamplePrice ==
    (IsSome(priceRead) /\ Val(priceRead).had_data /\ IsSome(mainData)
     /\ Val(priceRead).at = clock) =>
        \A smp \in SamplesAt(clock) :
            ~Val(priceRead).raised /\ Val(priceRead).value = smp.actual_price

CurrentTariffIsSampleTariff ==
    (IsSome(tariffRead) /\ IsSome(mainData) /\ Val(tariffRead).at = clock) =>
        \A smp \in SamplesAt(clock) : TariffBucket(Val(tariffRead).value) = smp.tariff

\* C17: at every instant the held day series cover, the current price read
\* is the consumer price, and the current tariff read is the tariff, of the
\* sample whose [start_time, end_time) holds the instant.
C17_CurrentValuesAgreeWithCoveringSample ==
    CurrentPriceIsSamplePrice /\ CurrentTariffIsSampleTariff

(***************************************************************************)
(* The results of the cheap-hours coordinator as objects: the first result *)
(* published is followed through later recomputations, refreshes and       *)
(* runtime settings.                                                       *)
(***************************************************************************)
\* the fetch returns every day, or nothing for today (the client returns None)
PublishScenarios ==
    { [yesterday |-> TRUE, today |-> TRUE, tomorrow |-> TRUE],
      [yesterday |-> TRUE, today |-> FALSE, tomorrow |-> TRUE] }

InitPublish ==
    /\ clock = StartTick
    /\ market = [pattern |-> 1, blocks |-> FALSE, defectDate |-> DefectDate,
                 defect |-> NoDefect]
    /\ calendar = [fails |-> FALSE, holidays |-> {}]
    /\ generation = "cheap_hours"
    /\ entryData = Some(DefaultEntry)
    /\ entryOptions = None
    /\ flow = IdleFlow
    /\ lastFetch = NoFetch
    /\ mainData = None
    /\ isStartup = TRUE
    /\ cheapData = None
    /\ tariffRead = None
    /\ runtime = NoRuntime
    /\ trigger = Constructed(generation, Config).trigger
    /\ hass = Constructed(generation, Config).hass
    /\ legacy = NoLegacy
    /\ priceRead = None
    /\ published = [kept |-> TRUE, first |-> None]

NextPublish ==
    \/ \E avail \in PublishScenarios : Refresh(avail)
    \/ CheapManualUpdate
    \/ Tick
    \/ \E value \in RuntimeBasePrices : SetRuntimeBasePrice(value)
    \/ \E value \in RuntimeThresholds : SetRuntimeThreshold(value)

SpecPublish == InitPublish /\ [][NextPublish]_vars

C19_TransmissionFollowsSampleTariff ==
    \A s \in PricedSamples :
        IsSome(s.actual_price) =>
            Val(s.actual_price) = ExpectedConsumerPrice(Val(s.nord_pool_price), s.tariff)

(***************************************************************************)
(* Staleness: hours pass between refreshes, the fetch may return nothing   *)
(* for today and the holiday lookup may start or stop failing.             *)
(***************************************************************************)
MaxHours == 7
MaxLegacyDays == 3

\* An hour passes.
HourPasses ==
    /\ clock + TicksPerHour <= StartTick + MaxHours * TicksPerHour
    /\ clock' = clock + TicksPerHour
    /\ UNCHANGED <<market, calendar, generation, entryData, entryOptions, flow,
                   lastFetch, mainData, isStartup, cheapData, tariffRead, runtime,
                   priceRead, published,
                   trigger, hass, legacy>>

\* holidays.country_holidays starts or stops raising.
HolidayLookupChanges ==
    /\ calendar' = [calendar EXCEPT !.fails = ~calendar.fails]
    /\ UNCHANGED <<clock, market, generation, entryData, entryOptions, flow,
                   lastFetch, mainData, isStartup, cheapData, tariffRead, runtime,
                   priceRead, published,
                   trigger, hass, legacy>>

InitStale ==
    /\ clock = StartTick
    /\ market = [pattern |-> 0, blocks |-> FALSE, defectDate |-> DefectDate,
                 defect |-> NoDefect]
    /\ calendar = [fails |-> FALSE, holidays |-> {}]
    /\ generation = "sensor"
    /\ entryData = Some(DefaultEntry)
    /\ entryOptions = None
    /\ flow = IdleFlow
    /\ lastFetch = NoFetch
    /\ mainData = None
    /\ isStartup = TRUE
    /\ cheapData = None
    /\ tariffRead = None
    /\ runtime = NoRuntime
    /\ trigger = Constructed(generation, Config).trigger
    /\ hass = Constructed(generation, Config).hass
    /\ legacy = NoLegacy
    /\ priceRead = None
    /\ published = NoHistory

NextStale ==
    \/ \E avail \in PublishScenarios : Refresh(avail)
    \/ Tick
    \/ HourPasses
    \/ HolidayLookupChanges

SpecStale == InitStale /\ [][NextStale]_vars

StaleLimit == STALE_AFTER_HOURS * TicksPerHour

\* the last refresh obtained nothing
RefreshFailed == lastFetch.api \in {"none", "raised"}

\* what the last failed refresh left, by the age of the data it found
FailedRefreshOutcome ==
    RefreshFailed =>
        IF IsSome(lastFetch.time_since_sync) /\ Val(lastFetch.time_since_sync) < StaleLimit
        THEN /\ lastFetch.update = "preserved"
             /\ IsSome(mainData)
        ELSE /\ lastFetch.api = "none" => (lastFetch.update = "none" /\ mainData = None)
             /\ lastFetch.api = "raised" => lastFetch.update = "failed"

\* a failed refresh that changes anything: what it does to the held data
FailedRefreshStep ==
    (clock' = clock /\ calendar' = calendar /\ lastFetch'.api \in {"none", "raised"}) =>
        IF IsSome(mainData) /\ clock - Val(mainData).last_sync < StaleLimit
        THEN mainData' = mainData /\ lastFetch'.update = "preserved"
        ELSE /\ lastFetch'.update \in {"none", "failed"}
             /\ lastFetch'.api = "none" => mainData' = None

\* C20: after a refresh that obtained nothing (the client returned None or
\* raised an API error) the coordinator serves the data of the last
\* successful fetch, last_sync unchanged, only while that last_sync is less
\* than 6 hours old; once it is 6 hours old or more, or without earlier data,
\* the failed refresh yields no data (None, or UpdateFailed).
C20_FailedRefreshPreservesOnlyRecentData ==
    [](FailedRefreshOutcome) /\ [][FailedRefreshStep]_vars

\* C20 witness: data exactly 6 hours old was not preserved.
C20_Witness ==
    /\ lastFetch.api = "none"
    /\ lastFetch.time_since_sync = Some(StaleLimit)
    /\ lastFetch.update = "none"
    /\ mainData = None

(***************************************************************************)
(* Claims about the start-up calculation.                                  *)
(***************************************************************************)
\* tomorrow's series of the held data has a price
TomorrowHasPrices ==
    /\ "tomorrow" \in DOMAIN HeldDays
    /\ HasRealPrices(HeldDays["tomorrow"])

\* C21: when the start-up path of a refresh triggers the cheap-hours
\* calculation, the calculation runs on the data that refresh fetched: after
\* the refresh the cheap coordinator holds a result computed from that data,
\* and the trigger requested no further refresh of the main data.
C21_StartupCalculationUsesFetchedData ==
    lastFetch.invoked =>
        /\ IsSome(cheapData)
        /\ Val(cheapData).main_data = HeldDays
        /\ ~lastFetch.refresh_requested

InvocationOnlyAtStartup ==
    lastFetch.invoked =>
        /\ lastFetch.update = "data"
        /\ TomorrowHasPrices
        /\ ~isStartup

InvocationStep ==
    /\ lastFetch'.invoked /\ lastFetch' # lastFetch => isStartup /\ ~isStartup'
    /\ ~isStartup => ~isStartup'
    /\ (lastFetch' # lastFetch /\ lastFetch'.update # "data") =>
          /\ isStartup' = isStartup
          /\ ~lastFetch'.invoked

AcceptedTriggerValue(value) ==
    LET parts == SplitParts(value)
        time == IF value.kind = "time" THEN Some(TimeOfDay(value.hour, value.minute))
                ELSE IF IsDict(value)
                THEN IF value.kind # "dict" THEN None
                     ELSE Some(TimeOfDay(value.hour, value.minute))
                ELSE IF IsStr(value)
                THEN IF Len(parts) < 2 THEN None
                     ELSE IF IsNone(parts[1]) \/ IsNone(parts[2]) THEN None
                     ELSE Some(TimeOfDay(Val(parts[1]), Val(parts[2])))
                ELSE None
    IN  IF IsSome(time) /\ InTimeRange(Val(time).hour, Val(time).minute)
        THEN Some(TimeDict(Val(time).hour, Val(time).minute))
        ELSE None

\* CheapHoursUpdateTriggerEntity.set_value with
\* set_runtime_update_trigger and _update_trigger_schedule_from_runtime
SetValue(value) ==
    /\ generation = "cheap_hours"
    /\ IsSome(AcceptedTriggerValue(value))
    /\ \E r \in {Reschedule([trigger EXCEPT !.update_trigger = AcceptedTriggerValue(value)],
                            hass,
                            RuntimeTriggerTime(
                                GetRuntimeUpdateTrigger(
                                    [trigger EXCEPT !.update_trigger =
                                                        AcceptedTriggerValue(value)],
                                    Config)))} :
        /\ trigger' = r.trigger
        /\ hass' = r.hass
    /\ UNCHANGED <<clock, market, calendar, generation, entryData, entryOptions,
                   flow, lastFetch, mainData, isStartup, cheapData, tariffRead,
                   runtime, priceRead, published, legacy>>

\* CheapHoursDataUpdateCoordinator.update_trigger_config
UpdateTriggerConfig ==
    /\ generation = "cheap_hours"
    /\ \E r \in {Reschedule(trigger, hass, UpdateTriggerTime(Config))} :
        /\ trigger' = r.trigger
        /\ hass' = r.hass
    /\ UNCHANGED <<clock, market, calendar, generation, entryData, entryOptions,
                   flow, lastFetch, mainData, isStartup, cheapData, tariffRead,
                   runtime, priceRead, published, legacy>>

\* _on_stop, listening once for EVENT_HOMEASSISTANT_STOP
StopEvent ==
    /\ generation = "cheap_hours"
    /\ ~hass.stopped
    /\ trigger' = [trigger EXCEPT !.trigger_unsub = None]
    /\ hass' = [hass EXCEPT !.listeners = CancelTrigger(hass.listeners,
                                                        trigger.trigger_unsub),
                            !.stopped = TRUE]
    /\ UNCHANGED <<clock, market, calendar, generation, entryData, entryOptions,
                   flow, lastFetch, mainData, isStartup, cheapData, tariffRead,
                   runtime, priceRead, published, legacy>>

\* Home Assistant reaches a time of day some listener is registered for: each
\* such listener runs _handle_trigger, which runs async_manual_update.  The
\* time of day is not tied to the model's clock.
FireTrigger ==
    /\ generation = "cheap_hours"
    /\ \E i \in 1..Len(hass.listeners) :
        hass' = [hass EXCEPT !.last_fire =
                    Some([time |-> hass.listeners[i],
                          calls |-> Cardinality({j \in 1..Len(hass.listeners) :
                                                   hass.listeners[j] = hass.listeners[i]})])]
    /\ cheapData' = CheapUpdate(generation, mainData, clock, Config)
    /\ published' = Publish(published, cheapData')
    /\ UNCHANGED <<clock, market, calendar, generation, entryData, entryOptions,
                   flow, lastFetch, mainData, isStartup, tariffRead, runtime,
                   priceRead, trigger, legacy>>

TriggerInputs ==
    { TimeObject(16, 0), TimeObject(DEFAULT_TRIGGER_HOUR, DEFAULT_TRIGGER_MINUTE),
      TimeDict(6, 15), TimeDict(LAST_HOUR + 1, 0), TimeHourDict(5),
      TimeStr(7, 45), TimeStr(7, LAST_MINUTE + 1),
      TimeText(<<Some(9)>>), TimeText(<<None, Some(0)>>) }

TriggerConfigs ==
    { DEFAULT_CHEAP_HOURS_UPDATE_TRIGGER, TimeDict(16, 0), TimeHourDict(5),
      TimeStr(LAST_HOUR + 2, 0), TimeText(<<Some(7)>>), TimeText(<<None>>) }

InitTrigger ==
    /\ clock = StartTick
    /\ market = [pattern |-> 1, blocks |-> FALSE, defectDate |-> DefectDate,
                 defect |-> NoDefect]
    /\ calendar = [fails |-> FALSE, holidays |-> {}]
    /\ generation = "cheap_hours"
    /\ \E t \in TriggerConfigs :
        entryData = Some([cheap_hours_update_trigger |-> t] @@ DefaultEntry)
    /\ entryOptions = None
    /\ flow = IdleFlow
    /\ lastFetch = NoFetch
    /\ mainData = None
    /\ isStartup = TRUE
    /\ cheapData = None
    /\ tariffRead = None
    /\ runtime = NoRuntime
    /\ trigger = Constructed(generation, Config).trigger
    /\ hass = Constructed(generation, Config).hass
    /\ legacy = NoLegacy
    /\ priceRead = None
    /\ published = NoHistory

NextTrigger ==
    \/ \E a \in PublishScenarios : Refresh(a)
    \/ \E v \in TriggerInputs : SetValue(v)
    \/ UpdateTriggerConfig
    \/ StopEvent
    \/ FireTrigger

SpecTrigger == InitTrigger /\ [][NextTrigger]_vars

(***************************************************************************)
(* Claims about the daily trigger.                                         *)
(***************************************************************************)
\* the listeners Home Assistant holds are exactly the one the coordinator
\* can still cancel
OnlyCurrentSubscription ==
    /\ Len(hass.listeners) <= 1
    /\ hass.listeners = IF IsSome(trigger.trigger_unsub)
                        THEN <<Val(trigger.trigger_unsub)>> ELSE <<>>

FiredOncePerTime ==
    IsSome(hass.last_fire) => Val(hass.last_fire).calls = 1

FiredAtCurrentTime ==
    hass'.last_fire # hass.last_fire =>
        /\ IsSome(trigger.trigger_unsub)
        /\ Val(hass'.last_fire).time = Val(trigger.trigger_unsub)

\* C23: after any sequence of trigger updates from the configuration, trigger
\* updates from the time entity and the stop event, at most one daily listener
\* of the cheap-hours coordinator is registered and every replaced one has
\* been cancelled: the recalculation fires only at the current trigger time
\* and once per trigger time.
C23_AtMostOneTriggerSubscription ==
    [](OnlyCurrentSubscription /\ FiredOncePerTime) /\ [][FiredAtCurrentTime]_vars

\* C23 witness: the trigger was replaced through the time entity and the
\* recalculation fired at the new time.
C23_Witness ==
    /\ IsSome(trigger.update_trigger)
    /\ IsSome(trigger.trigger_unsub)
    /\ IsSome(hass.last_fire)
    /\ Val(hass.last_fire).time = Val(trigger.trigger_unsub)
    /\ Val(trigger.trigger_unsub) #
           TimeOfDay(DEFAULT_TRIGGER_HOUR, DEFAULT_TRIGGER_MINUTE)
    /\ Val(hass.last_fire).calls = 1

TriggerScheduled ==
    ~hass.stopped => IsSome(trigger.trigger_unsub)

TriggerStaysScheduled ==
    (IsSome(trigger.trigger_unsub) /\ ~hass'.stopped) => IsSome(trigger'.trigger_unsub)

EffectiveTrigger ==
    IF IsSome(trigger.update_trigger) THEN Val(trigger.update_trigger)
    ELSE CfgGet(Config, "cheap_hours_update_trigger", DEFAULT_CHEAP_HOURS_UPDATE_TRIGGER)

SameTime(a, b) ==
    \/ a = b
    \/ /\ a.kind \in {"str", "dict"}
       /\ b.kind \in {"str", "dict"}
       /\ a.hour = b.hour
       /\ a.minute = b.minute

EffectiveParametersReported ==
    (cheapData' # cheapData /\ IsSome(cheapData')) =>
        /\ Val(cheapData').base_price =
               IF IsSome(runtime.base_price) THEN Val(runtime.base_price)
               ELSE CfgGet(Config, "cheap_hours_base_price",
                           CHEAP_HOURS_BASE_PRICE_DEFAULT)
        /\ Val(cheapData').threshold_percent =
               IF IsSome(runtime.threshold) THEN Val(runtime.threshold)
               ELSE CfgGet(Config, "cheap_hours_threshold",
                           CHEAP_HOURS_THRESHOLD_DEFAULT)
        /\ SameTime(Val(cheapData').trigger_time, EffectiveTrigger)

\* C25: in every computation of the cheap hours the base price, the threshold
\* and the trigger time used or reported are the live override when one is
\* set and the stored configuration value otherwise.
C25_OverridesWinInEveryCycle ==
    [][EffectiveParametersReported]_vars

(***************************************************************************)
(* Claims about the analysis result.                                       *)
(***************************************************************************)
AnalysisInfo == Val(cheapData).analysis_info

FutureCount == Len(Val(cheapData).future_prices)

\* C26: every analysis result computed over a non-empty set of future samples
\* carries analysis_info.analysis_period_hours, the number of samples that
\* passed the future filter, whether or not any of them is cheap.
C26_AnalysisPeriodCountsFutureSamples ==
    (HasCheapCoordinator /\ IsSome(cheapData) /\ FutureCount > 0) =>
        /\ "analysis_period_hours" \in DOMAIN AnalysisInfo
        /\ AnalysisInfo["analysis_period_hours"] = FutureCount

AllFuturePricesEqual ==
    /\ IsSome(cheapData)
    /\ FutureCount > 0
    /\ \A p, q \in FutureSamples : p.price = q.price

\* the analysis' own cheap filter let the future samples pass
FutureIsCheap == Val(cheapData).cheap_prices # <<>>

OneRangeOverWholeWindow ==
    /\ Len(CheapRanges) = 1
    /\ CheapRanges[1].start_time = Val(cheapData).future_prices[1].start_time
    /\ CheapRanges[1].end_time = Val(cheapData).future_prices[FutureCount].end_time
    /\ CheapRanges[1].hour_count = FutureCount

EqualPricesGiveOneRangeOrNone ==
    AllFuturePricesEqual =>
        IF FutureIsCheap THEN OneRangeOverWholeWindow ELSE CheapRanges = <<>>

SingleHourRange ==
    /\ Len(CheapRanges) = 1
    /\ CheapRanges[1].hour_count = 1
    /\ CheapRanges[1].min_price = CheapRanges[1].max_price
    /\ CheapRanges[1].max_price = CheapRanges[1].avg_price

\* C27 as stated: equal future prices give one range over the whole future
\* window if the price is cheap and no range if it is not; a single remaining
\* future sample gives one range with hour_count 1 and min = max = avg.
C27_EqualPricesAndSingleSample ==
    /\ EqualPricesGiveOneRangeOrNone
    /\ (IsSome(cheapData) /\ FutureCount = 1) => SingleHourRange

\* C27 amended: the single remaining future sample gives its one-hour range
\* when it is cheap.
C27_EqualPricesAndSingleCheapSample ==
    /\ EqualPricesGiveOneRangeOrNone
    /\ (IsSome(cheapData) /\ FutureCount = 1 /\ FutureIsCheap) => SingleHourRange

\* C27 witness: several future samples of one cheap price in one range.
C27_Witness ==
    /\ AllFuturePricesEqual
    /\ FutureCount > 1
    /\ FutureIsCheap
    /\ OneRangeOverWholeWindow

RECURSIVE SumHourCount(_, _)
SumHourCount(ranges, n) ==
    IF n = 0 THEN 0 ELSE ranges[n].hour_count + SumHourCount(ranges, n - 1)

\* C29: in every analysis result with at least one range,
\* analysis_info.total_cheap_hours is the number of cheap hours, the sum of
\* hour_count over cheap_ranges.
C29_TotalCheapHoursIsSumOfHourCounts ==
    (HasCheapCoordinator /\ IsSome(cheapData) /\ CheapRanges # <<>>) =>
        /\ "total_cheap_hours" \in DOMAIN AnalysisInfo
        /\ AnalysisInfo["total_cheap_hours"] = SumHourCount(CheapRanges, Len(CheapRanges))

(***************************************************************************)
(* The integration of docker/config: its config flow validates the form    *)
(* and creates the entry; its coordinator refreshes every scan interval    *)
(* and schedules one follow-up refresh near midnight.  Its time, legacy.now,*)
(* runs in steps of LEGACY_SCAN_STEP seconds, the step of the scan interval.*)
(***************************************************************************)
LegacyTicksPerHour == 3600 \div LEGACY_SCAN_STEP
LegacyTicksPerDay == HoursPerDay * LegacyTicksPerHour
LegacyHour(t) == (t % LegacyTicksPerDay) \div LegacyTicksPerHour
LegacyDate(t) == t \div LegacyTicksPerDay

\* validate_input of docker/config, from the scan interval on (country code
\* and VAT rate are valid, the cheap-price trigger keeps its default)
LegacyValidateInput(data) ==
    IF ~(SCAN_INTERVAL_MIN <= data.scan_interval /\ data.scan_interval <= SCAN_INTERVAL_MAX)
    THEN "invalid_scan_interval"
    ELSE IF data.update_trigger # "dict" THEN "invalid_update_trigger"
    ELSE IF ~(/\ 0 <= data.start_hour /\ data.start_hour <= LAST_HOUR
              /\ 0 <= data.end_hour /\ data.end_hour <= LAST_HOUR)
    THEN "invalid_hour_range"
    ELSE IF data.start_hour >= data.end_hour /\ data.end_hour # 0
    THEN "invalid_night_hours"
    ELSE IF ~ParseTimeString(data.start_time).ok \/ ~ParseTimeString(data.end_time).ok
    THEN "invalid_time_format"
    ELSE IF /\ ParseTimeString(data.start_time).hour >= ParseTimeString(data.end_time).hour
            /\ ParseTimeString(data.end_time).hour # 0
    THEN "invalid_night_hours"
    ELSE "none"

\* async_step_user of docker/config with a form; async_setup_entry builds the
\* coordinator, whose first refresh is due at once
LegacySubmitUser(input) ==
    /\ IsNone(legacy.entry)
    /\ \E err \in {LegacyValidateInput(input)} :
        legacy' = IF err = "none"
                  THEN [legacy EXCEPT !.entry = Some(input),
                                      !.submitted = Some(input),
                                      !.error = err,
                                      !.next_refresh = Some(legacy.now)]
                  ELSE [legacy EXCEPT !.submitted = Some(input), !.error = err]
    /\ UNCHANGED <<clock, market, calendar, generation, entryData, entryOptions,
                   flow, lastFetch, mainData, isStartup, cheapData, tariffRead,
                   runtime, priceRead, published, trigger, hass>>

\* (hour >= 22 or hour <= 2)
NearMidnight(hour) == hour >= NEAR_MIDNIGHT_FROM \/ hour <= NEAR_MIDNIGHT_UNTIL

\* the night window a near-midnight time lies in, numbered by its morning
NightOf(t) == LegacyDate(t + (HoursPerDay - NEAR_MIDNIGHT_FROM) * LegacyTicksPerHour)

\* the times at which a refresh is due: the interval's and the follow-ups'
DueTimes(l) ==
    l.call_later \cup (IF IsSome(l.next_refresh) THEN {Val(l.next_refresh)} ELSE {})

\* _schedule_midnight_update_if_needed at time t: the flag and the timers
ScheduleMidnightUpdateIfNeeded(l, t) ==
    IF NearMidnight(LegacyHour(t)) /\ ~l.midnight_check_scheduled
    THEN [l EXCEPT !.midnight_check_scheduled = TRUE,
                   !.call_later = @ \cup {t + FOLLOW_UP_SECONDS \div LEGACY_SCAN_STEP}]
    ELSE IF LegacyHour(t) > NEAR_MIDNIGHT_UNTIL /\ LegacyHour(t) < NEAR_MIDNIGHT_FROM
    THEN [l EXCEPT !.midnight_check_scheduled = FALSE]
    ELSE l

\* the record of the night window of a refresh at time t, given the timers
\* before and after it
NoteNight(before, after, t) ==
    LET new == after.call_later \ before.call_later
    IN  IF ~NearMidnight(LegacyHour(t)) THEN after
        ELSE IF before.night = Some(NightOf(t))
        THEN [after EXCEPT !.followups_in_night = @ \cup new]
        ELSE [after EXCEPT !.night = Some(NightOf(t)),
                           !.first_in_night = Some(t),
                           !.followups_in_night = new]

\* The earliest due refresh runs: _async_update_data of docker/config, after
\* which the coordinator schedules its next refresh one scan interval later.
LegacyRefresh ==
    /\ IsSome(legacy.entry)
    /\ DueTimes(legacy) # {}
    /\ \E t \in {SetMin(DueTimes(legacy))} :
        /\ t < MaxLegacyDays * LegacyTicksPerDay
        /\ \E due \in {[legacy EXCEPT !.now = t, !.call_later = @ \ {t}]} :
            legacy' = [NoteNight(due, ScheduleMidnightUpdateIfNeeded(due, t), t) EXCEPT
                          !.last_update_date = Some(LegacyDate(t)),
                          !.next_refresh =
                              Some(t + Val(legacy.entry).scan_interval \div LEGACY_SCAN_STEP)]
    /\ UNCHANGED <<clock, market, calendar, generation, entryData, entryOptions,
                   flow, lastFetch, mainData, isStartup, cheapData, tariffRead,
                   runtime, priceRead, published, trigger, hass>>

\* the forms: the night window's hours and times agree
LegacyInputs ==
    { [update_trigger |-> u, scan_interval |-> i,
       start_hour |-> w[1], end_hour |-> w[2],
       start_time |-> TimeStr(w[1], 0), end_time |-> TimeStr(w[2], 0)] :
        u \in {"dict", "str"},
        i \in { SCAN_INTERVAL_MIN, DEFAULT_SCAN_INTERVAL, 6 * DEFAULT_SCAN_INTERVAL,
                SCAN_INTERVAL_MAX, SCAN_INTERVAL_MAX + LEGACY_SCAN_STEP },
        w \in { <<NIGHT_START_HOUR, NIGHT_END_HOUR>>, <<1, 6>>, <<0, 0>>, <<5, 5>>,
                <<NIGHT_START_HOUR, 0>> } }

\* set up at 12:00 or at 23:00 UTC
LegacyStartTimes ==
    { 12 * LegacyTicksPerHour, (NEAR_MIDNIGHT_FROM + 1) * LegacyTicksPerHour }

InitLegacy ==
    /\ clock = StartTick
    /\ market = [pattern |-> 1, blocks |-> FALSE, defectDate |-> DefectDate,
                 defect |-> NoDefect]
    /\ calendar = [fails |-> FALSE, holidays |-> {}]
    /\ generation = "cheap_price"
    /\ entryData = Some(DefaultEntry)
    /\ entryOptions = None
    /\ flow = IdleFlow
    /\ lastFetch = NoFetch
    /\ mainData = None
    /\ isStartup = TRUE
    /\ cheapData = None
    /\ tariffRead = None
    /\ runtime = NoRuntime
    /\ trigger = Constructed(generation, Config).trigger
    /\ hass = Constructed(generation, Config).hass
    /\ \E t \in LegacyStartTimes : legacy = [NoLegacy EXCEPT !.now = t]
    /\ priceRead = None
    /\ published = NoHistory

NextLegacy ==
    \/ \E input \in LegacyInputs : LegacySubmitUser(input)
    \/ LegacyRefresh

SpecLegacy == InitLegacy /\ [][NextLegacy]_vars

\* the form's night window has its hours in 0-23 and start differs from end,
\* or ends at 0
ValidNightWindow(input) ==
    /\ input.start_hour \in 0..LAST_HOUR
    /\ input.end_hour \in 0..LAST_HOUR
    /\ (input.start_hour # input.end_hour \/ input.end_hour = 0)

\* C28: the validation accepts every night window with both hours in 0-23
\* and start_hour # end_hour (or end_hour = 0), crossing midnight like 22->07
\* or not like 01->06: no version of the validation rejects a valid window.
C28_EveryValidNightWindowAccepted ==
    (IsSome(legacy.submitted) /\ ValidNightWindow(Val(legacy.submitted))) =>
        legacy.error \notin {"invalid_hour_range", "invalid_night_hours",
                             "invalid_time_format"}

\* C30: for every night window (22:00-02:59 UTC) in which a refresh runs,
\* exactly one follow-up refresh is scheduled, 15 minutes after the first such
\* refresh, night after night, for every scan interval from 5 minutes to 24
\* hours.
C30_OneFollowUpPerNightWindow ==
    IsSome(legacy.night) =>
        legacy.followups_in_night =
            {Val(legacy.first_in_night) + FOLLOW_UP_SECONDS \div LEGACY_SCAN_STEP}

====
